---- MODULE Spec2Model ----
(***************************************************************************)
(* Model of the AI-driven observability agent:                             *)
(*   environment_detector.py  - SmartEnvironmentDetector                   *)
(*   ai-agent.py              - endpoint resolution, health analysis,      *)
(*                              risk scoring and the pipeline driver       *)
(***************************************************************************)
EXTENDS Integers, Sequences, FiniteSets, TLC

VARIABLES
    environ,      \* os.environ: variable name -> value (None when unset)
    infra,        \* what the external commands / HTTP probes answer
    config,       \* SmartEnvironmentDetector.config (NoConfig until detected)
    returned,     \* what the last detect_environment call handed back
    probesRun,    \* number of detector functions run so far
    calls,        \* number of detect_environment calls made so far
    changes,      \* number of changes made to the environment / infrastructure
    PROM_URL,     \* ai-agent.py module global: the resolved metrics endpoint
    GRAFANA_URL,  \* ai-agent.py module global: the resolved dashboard endpoint
    riskArgs,     \* the arguments of a _calculate_ai_risk_score call
    riskResult,   \* its result (NoResult before the call)
    healthIn,     \* what kubectl and Prometheus answer to analyze_system_health
    health_analysis, \* the dict analyze_system_health builds and returns
    hpc,          \* where analyze_system_health stands: idle, sim_loop, returned
    simLoop,      \* the simulation loop: [num_pods, i]
    aggIn,        \* two unit sets handed to the overall score computation
    aggOut,       \* their two overall scores
    driverIn,     \* what the driver's runs share: environment flags and the two snapshots
    proc,         \* per run: module state after import (simulation_mode, agent)
    run,          \* per run: the locals of main() and the process exit status
    toolIn,       \* the inputs of one tool call: its arguments and what the outside answers
    toolOut       \* what the tool call returned (NoResult before the call)

detVars == <<environ, infra, config, returned, probesRun, calls, changes>>

urlVars == <<PROM_URL, GRAFANA_URL>>

riskVars == <<riskArgs, riskResult>>

healthVars == <<healthIn, health_analysis, hpc, simLoop>>

aggVars == <<aggIn, aggOut>>

driverVars == <<driverIn, proc, run>>

toolVars == <<toolIn, toolOut>>

vars == <<detVars, urlVars, riskVars, healthVars, aggVars, driverVars, toolVars>>

(***************************************************************************)
(* Values                                                                  *)
(***************************************************************************)
\* Python's None, for an unset environment variable or a missing dict key
None == "<None>"

\* self.config = None in __init__
NoConfig == [env_type |-> "<None>"]

\* the marker of an exception that left a function
Raised == [env_type |-> "<raised>"]

\* a module global that has not been assigned yet
Undefined == "<undefined>"

\* no call made yet
NoArgs == [pod_status |-> "<none>"]
NoResult == [done |-> FALSE]
Result(v) == [done |-> TRUE, value |-> v]
NoHealthIn == [pods_cmd |-> "<none>"]
NoAnalysis == [error |-> "<none>"]
NoSimLoop == [num_pods |-> 0, i |-> 0]
NoDriverIn == [BLOCKING_MODE |-> "<none>"]
NoTool == [fn |-> "<none>"]

\* truthiness of an optional string: None and "" are falsy
Truthy(v) == v # None /\ v # ""

\* os.getenv(name, default)
getenv(env, name, default) == IF env[name] = None THEN default ELSE env[name]

\* str.lower() on the flag values the model uses
Lower(s) ==
    CASE s = "TRUE" -> "true"
      [] s = "True" -> "true"
      [] s = "CRITICAL" -> "critical"
      [] OTHER -> s

(***************************************************************************)
(* environment_detector.py : helper probes                                 *)
(***************************************************************************)
\* subprocess.run(["kubectl","version","--client"]) ; any exception -> False
_check_kubernetes_access(inf) ==
    CASE inf.kubectl_version = "rc0"   -> TRUE
      [] inf.kubectl_version = "rc1"   -> FALSE
      [] OTHER                         -> FALSE   \* except Exception: return False

\* service-account path exists and providerID of the first node contains "aws"
_is_running_in_eks(inf) ==
    CASE inf.node_provider = "raise"  -> FALSE  \* except Exception: pass
      [] inf.node_provider = "nopath" -> FALSE
      [] OTHER                        -> inf.node_provider = "aws"

\* GKE metadata server answers 200
_is_running_in_gke(inf) ==
    CASE inf.gke_metadata = "raise" -> FALSE    \* except Exception: return False
      [] OTHER                      -> inf.gke_metadata = "200"

\* service-account path exists and providerID of the first node contains "azure"
_is_running_in_aks(inf) ==
    CASE inf.node_provider = "raise"  -> FALSE
      [] inf.node_provider = "nopath" -> FALSE
      [] OTHER                        -> inf.node_provider = "azure"

_detect_cloud_provider(env) ==
    IF Truthy(env.AWS_REGION) \/ Truthy(env.AWS_DEFAULT_REGION) THEN "aws"
    ELSE IF Truthy(env.GOOGLE_CLOUD_PROJECT) THEN "gcp"
    ELSE IF Truthy(env.AZURE_SUBSCRIPTION_ID) THEN "azure"
    ELSE None

(***************************************************************************)
(* environment_detector.py : monitoring endpoints.  Only the two keys the  *)
(* agent reads with .get("prometheus") / .get("grafana") are kept, None    *)
(* standing for a key that is absent.                                      *)
(***************************************************************************)
ClusterPromURL == "http://prometheus.monitoring.svc.cluster.local"
ClusterGrafanaURL == "http://grafana.monitoring.svc.cluster.local"

_get_cluster_monitoring_endpoints(inf) ==
    CASE inf.svc_list = "both"       -> [prometheus |-> ClusterPromURL, grafana |-> ClusterGrafanaURL]
      [] inf.svc_list = "prometheus" -> [prometheus |-> ClusterPromURL, grafana |-> None]
      [] inf.svc_list = "grafana"    -> [prometheus |-> None, grafana |-> ClusterGrafanaURL]
      [] OTHER                       -> [prometheus |-> None, grafana |-> None]  \* rc # 0, no service, exception

\* also used by the aws / gcp / azure endpoint builders, which read the same two variables
_get_external_monitoring_endpoints(env) ==
    [prometheus |-> getenv(env, "PROM_URL", ""), grafana |-> getenv(env, "GRAFANA_URL", "")]

_get_local_monitoring_endpoints ==
    [prometheus |-> "http://localhost:9090", grafana |-> "http://localhost:3000"]

_get_docker_desktop_endpoints ==
    [prometheus |-> "http://localhost:9090", grafana |-> "http://localhost:3000"]

\* the keys are mock_prometheus / mock_grafana: "prometheus" and "grafana" are absent
_get_simulation_endpoints ==
    [prometheus |-> None, grafana |-> None]

(***************************************************************************)
(* environment_detector.py : the detectors.  Each yields                   *)
(*   [tag |-> "none"]  (returned None), [tag |-> "raise"] (an exception    *)
(*   left the detector) or [tag |-> "match", config |-> EnvironmentConfig] *)
(***************************************************************************)
EnvironmentConfig(t, k8s, cloud, eps, auth, rtm, chaos, cicd) ==
    [env_type |-> t, kubernetes_available |-> k8s, cloud_provider |-> cloud,
     monitoring_endpoints |-> eps, auth_method |-> auth,
     capabilities |-> [real_time_monitoring |-> rtm, predictive_analytics |-> TRUE,
                       chaos_simulation |-> chaos, external_notifications |-> TRUE,
                       ci_cd_integration |-> cicd]]

NoMatch == [tag |-> "none"]
Match(c) == [tag |-> "match", config |-> c]

_detect_github_actions(env, inf) ==
    IF ~Truthy(env.GITHUB_ACTIONS) THEN NoMatch
    ELSE LET k8s_available == _check_kubernetes_access(inf)
         IN  Match(EnvironmentConfig("github_actions", k8s_available,
                     _detect_cloud_provider(env),
                     IF k8s_available THEN _get_cluster_monitoring_endpoints(inf)
                                      ELSE _get_external_monitoring_endpoints(env),
                     IF k8s_available THEN "service_account" ELSE "api_key",
                     k8s_available, k8s_available, TRUE))

_detect_aws_eks(env, inf) ==
    IF ~(Truthy(env.AWS_ACCESS_KEY_ID) \/ Truthy(env.AWS_ROLE_ARN)) THEN NoMatch
    ELSE IF _is_running_in_eks(inf)
         THEN Match(EnvironmentConfig("aws_eks", TRUE, "aws",
                      _get_external_monitoring_endpoints(env), "iam_role", TRUE, TRUE, TRUE))
         ELSE NoMatch

_detect_google_gke(env, inf) ==
    IF ~Truthy(env.GOOGLE_APPLICATION_CREDENTIALS) /\ ~_is_running_in_gke(inf) THEN NoMatch
    ELSE Match(EnvironmentConfig("google_gke", TRUE, "gcp",
                 _get_external_monitoring_endpoints(env), "workload_identity", TRUE, TRUE, TRUE))

_detect_azure_aks(env, inf) ==
    IF ~(Truthy(env.AZURE_CLIENT_ID) \/ _is_running_in_aks(inf)) THEN NoMatch
    ELSE Match(EnvironmentConfig("azure_aks", TRUE, "azure",
                 _get_external_monitoring_endpoints(env), "managed_identity", TRUE, TRUE, TRUE))

_detect_local_kubernetes(env, inf) ==
    IF ~_check_kubernetes_access(inf) THEN NoMatch
    ELSE CASE inf.cluster_info = "local" ->   \* rc 0 and a local indicator in the output
                 Match(EnvironmentConfig("local_k8s", TRUE, None,
                         _get_local_monitoring_endpoints, "kubeconfig", TRUE, TRUE, FALSE))
           [] OTHER -> NoMatch                \* remote cluster, rc # 0, or except Exception: pass

_detect_docker_desktop(env, inf) ==
    CASE inf.docker_info = "desktop" ->       \* rc 0 and "docker desktop" in the output
             LET k8s_available == _check_kubernetes_access(inf)
             IN  Match(EnvironmentConfig("docker_desktop", k8s_available, None,
                         _get_docker_desktop_endpoints,
                         IF k8s_available THEN "kubeconfig" ELSE "docker_api",
                         k8s_available, k8s_available, FALSE))
      [] OTHER -> NoMatch                     \* other engine, rc # 0, or except Exception: pass

_detect_simulation_mode(env, inf) ==
    IF Lower(getenv(env, "AI_OBSERVABILITY_SIMULATION", "false")) = "true"
    THEN Match(EnvironmentConfig("simulation", FALSE, None,
                 _get_simulation_endpoints, "none", FALSE, TRUE, TRUE))
    ELSE NoMatch

_create_unknown_config ==
    EnvironmentConfig("unknown", FALSE, None, _get_simulation_endpoints, "none",
                      FALSE, FALSE, TRUE)

(***************************************************************************)
(* environment_detector.py : detect_environment                            *)
(***************************************************************************)
\* the pipeline with the AWS probe listed before the CI probe
detectors_aws_first ==
    <<"_detect_aws_eks", "_detect_github_actions", "_detect_google_gke",
      "_detect_azure_aks", "_detect_local_kubernetes", "_detect_docker_desktop",
      "_detect_simulation_mode">>

\* the detection pipeline, in the order of the list in detect_environment
detectors ==
    <<"_detect_github_actions", "_detect_aws_eks", "_detect_google_gke",
      "_detect_azure_aks", "_detect_local_kubernetes", "_detect_docker_desktop",
      "_detect_simulation_mode">>

\* detector(): an exception that no inner handler covers leaves the detector
CallDetector(name, env, inf) ==
    IF name \in inf.unexpected THEN [tag |-> "raise"]
    ELSE CASE name = "_detect_github_actions"   -> _detect_github_actions(env, inf)
           [] name = "_detect_aws_eks"          -> _detect_aws_eks(env, inf)
           [] name = "_detect_google_gke"       -> _detect_google_gke(env, inf)
           [] name = "_detect_azure_aks"        -> _detect_azure_aks(env, inf)
           [] name = "_detect_local_kubernetes" -> _detect_local_kubernetes(env, inf)
           [] name = "_detect_docker_desktop"   -> _detect_docker_desktop(env, inf)
           [] name = "_detect_simulation_mode"  -> _detect_simulation_mode(env, inf)

RECURSIVE DetectorLoop(_, _, _)

\* the loop without its try / except: a detector's exception leaves detect_environment
DetectorLoop_no_except(i, env, inf) ==
    IF i > Len(detectors)
    THEN [config |-> _create_unknown_config, returned |-> _create_unknown_config,
          probes |-> Len(detectors)]
    ELSE LET r == CallDetector(detectors[i], env, inf)
         IN  CASE r.tag = "match" -> [config |-> r.config, returned |-> r.config, probes |-> i]
               [] r.tag = "raise" -> [config |-> NoConfig, returned |-> Raised, probes |-> i]
               [] OTHER           -> DetectorLoop(i + 1, env, inf)

\* one turn of "for detector in detectors": try / except Exception: continue
DetectorLoop(i, env, inf) ==
    IF i > Len(detectors)
    THEN [config |-> _create_unknown_config, returned |-> _create_unknown_config,
          probes |-> Len(detectors)]
    ELSE LET r == CallDetector(detectors[i], env, inf)
         IN  CASE r.tag = "match" -> [config |-> r.config, returned |-> r.config, probes |-> i]
               [] r.tag = "raise" -> DetectorLoop(i + 1, env, inf)
               [] OTHER           -> DetectorLoop(i + 1, env, inf)

\* detect_environment without the cache check: every call runs the pipeline again
detect_environment_no_cache(cfg, env, inf) == DetectorLoop(1, env, inf)

\* detect_environment(self): the cache check, then the pipeline
detect_environment(cfg, env, inf) ==
    IF cfg # NoConfig
    THEN [config |-> cfg, returned |-> cfg, probes |-> 0]
    ELSE DetectorLoop(1, env, inf)

(***************************************************************************)
(* The inputs of the detector                                              *)
(***************************************************************************)
EnvNames ==
    {"GITHUB_ACTIONS", "AWS_ACCESS_KEY_ID", "AWS_ROLE_ARN", "GOOGLE_APPLICATION_CREDENTIALS",
     "AZURE_CLIENT_ID", "AI_OBSERVABILITY_SIMULATION", "AWS_REGION", "AWS_DEFAULT_REGION",
     "GOOGLE_CLOUD_PROJECT", "AZURE_SUBSCRIPTION_ID", "PROM_URL", "GRAFANA_URL",
     "AWS_SECRET_ACCESS_KEY"}

\* a process started with none of the variables set
BareEnviron == [n \in EnvNames |-> None]

\* an infrastructure where nothing answers
BareInfra ==
    [kubectl_version |-> "rc1", node_provider |-> "nopath", gke_metadata |-> "404",
     cluster_info |-> "remote", docker_info |-> "engine", svc_list |-> "none",
     unexpected |-> {}]

\* how many detectors may raise outside their own handlers in one detection
MaxUnexpected == 1

DetectEnvirons ==
    [GITHUB_ACTIONS : {None, "", "true"},
     AWS_ACCESS_KEY_ID : {None, "AKIA"},
     AWS_ROLE_ARN : {None, "arn:role"},
     GOOGLE_APPLICATION_CREDENTIALS : {None, "/key.json"},
     AZURE_CLIENT_ID : {None, "client"},
     AI_OBSERVABILITY_SIMULATION : {None, "TRUE", "false"},
     AWS_REGION : {None}, AWS_DEFAULT_REGION : {None},
     GOOGLE_CLOUD_PROJECT : {None}, AZURE_SUBSCRIPTION_ID : {None},
     PROM_URL : {None}, GRAFANA_URL : {None}, AWS_SECRET_ACCESS_KEY : {None}]

\* the external commands and HTTP probes: each answers, or raises / times out
ProbeInfras ==
    [kubectl_version : {"rc0", "rc1", "raise"},
     node_provider : {"nopath", "aws", "azure", "raise"},
     gke_metadata : {"200", "404", "raise"},
     cluster_info : {"local", "remote", "raise"},
     docker_info : {"desktop", "engine", "raise"},
     svc_list : {"none"}]

WithUnexpected(inf, u) ==
    [kubectl_version |-> inf.kubectl_version, node_provider |-> inf.node_provider,
     gke_metadata |-> inf.gke_metadata, cluster_info |-> inf.cluster_info,
     docker_info |-> inf.docker_info, svc_list |-> inf.svc_list, unexpected |-> u]

DetectorNames == {detectors[i] : i \in 1..Len(detectors)}

(***************************************************************************)
(* SpecDetect: one detector object in one process environment; the         *)
(* external commands may fail, raise or time out.                          *)
(* SpecFailSoft: the same, and detectors may also raise outside their own  *)
(* handlers.                                                               *)
(***************************************************************************)
\* how many times detect_environment is called on the detector
MaxCalls == 2

InitDetect ==
    /\ environ \in DetectEnvirons
    /\ infra \in {WithUnexpected(inf, {}) : inf \in ProbeInfras}
    /\ config = NoConfig
    /\ returned = NoConfig
    /\ probesRun = 0
    /\ calls = 0
    /\ changes = 0
    /\ PROM_URL = Undefined
    /\ GRAFANA_URL = Undefined
    /\ riskArgs = NoArgs
    /\ riskResult = NoResult
    /\ healthIn = NoHealthIn
    /\ health_analysis = NoAnalysis
    /\ hpc = "idle"
    /\ simLoop = NoSimLoop
    /\ aggIn = NoArgs
    /\ aggOut = NoResult
    /\ driverIn = NoDriverIn
    /\ proc = <<>>
    /\ run = <<>>
    /\ toolIn = NoTool
    /\ toolOut = NoResult
    /\ PROM_URL = Undefined
    /\ GRAFANA_URL = Undefined
    /\ riskArgs = NoArgs
    /\ riskResult = NoResult
    /\ healthIn = NoHealthIn
    /\ health_analysis = NoAnalysis
    /\ hpc = "idle"
    /\ simLoop = NoSimLoop
    /\ aggIn = NoArgs
    /\ aggOut = NoResult
    /\ driverIn = NoDriverIn
    /\ proc = <<>>
    /\ run = <<>>
    /\ toolIn = NoTool
    /\ toolOut = NoResult
    /\ PROM_URL = Undefined
    /\ GRAFANA_URL = Undefined
    /\ riskArgs = NoArgs
    /\ riskResult = NoResult
    /\ healthIn = NoHealthIn
    /\ health_analysis = NoAnalysis
    /\ hpc = "idle"
    /\ simLoop = NoSimLoop
    /\ aggIn = NoArgs
    /\ aggOut = NoResult
    /\ driverIn = NoDriverIn
    /\ proc = <<>>
    /\ run = <<>>
    /\ toolIn = NoTool
    /\ toolOut = NoResult

InitFailSoft ==
    /\ environ \in {e \in DetectEnvirons : e.AWS_ROLE_ARN = None}
    /\ infra \in {WithUnexpected(inf, u) : inf \in ProbeInfras,
                    u \in {x \in SUBSET DetectorNames : Cardinality(x) <= MaxUnexpected}}
    /\ config = NoConfig
    /\ returned = NoConfig
    /\ probesRun = 0
    /\ calls = 0
    /\ changes = 0
    /\ PROM_URL = Undefined
    /\ GRAFANA_URL = Undefined
    /\ riskArgs = NoArgs
    /\ riskResult = NoResult
    /\ healthIn = NoHealthIn
    /\ health_analysis = NoAnalysis
    /\ hpc = "idle"
    /\ simLoop = NoSimLoop
    /\ aggIn = NoArgs
    /\ aggOut = NoResult
    /\ driverIn = NoDriverIn
    /\ proc = <<>>
    /\ run = <<>>
    /\ toolIn = NoTool
    /\ toolOut = NoResult
    /\ PROM_URL = Undefined
    /\ GRAFANA_URL = Undefined
    /\ riskArgs = NoArgs
    /\ riskResult = NoResult
    /\ healthIn = NoHealthIn
    /\ health_analysis = NoAnalysis
    /\ hpc = "idle"
    /\ simLoop = NoSimLoop
    /\ aggIn = NoArgs
    /\ aggOut = NoResult
    /\ driverIn = NoDriverIn
    /\ proc = <<>>
    /\ run = <<>>
    /\ toolIn = NoTool
    /\ toolOut = NoResult
    /\ PROM_URL = Undefined
    /\ GRAFANA_URL = Undefined
    /\ riskArgs = NoArgs
    /\ riskResult = NoResult
    /\ healthIn = NoHealthIn
    /\ health_analysis = NoAnalysis
    /\ hpc = "idle"
    /\ simLoop = NoSimLoop
    /\ aggIn = NoArgs
    /\ aggOut = NoResult
    /\ driverIn = NoDriverIn
    /\ proc = <<>>
    /\ run = <<>>
    /\ toolIn = NoTool
    /\ toolOut = NoResult

\* env_detector.detect_environment()
DetectEnvironment ==
    /\ calls < MaxCalls
    /\ LET r == detect_environment(config, environ, infra)
       IN  /\ config' = r.config
           /\ returned' = r.returned
           /\ probesRun' = probesRun + r.probes
    /\ calls' = calls + 1
    /\ UNCHANGED <<environ, infra, changes, urlVars, riskVars, healthVars, aggVars, driverVars, toolVars>>

NextDetect == DetectEnvironment

SpecDetect == InitDetect /\ [][NextDetect]_vars

SpecFailSoft == InitFailSoft /\ [][NextDetect]_vars

(***************************************************************************)
(* SpecCache: a process whose environment variables and infrastructure     *)
(* change between calls of detect_environment on one detector              *)
(***************************************************************************)
\* how many changes of the environment / infrastructure one run makes
MaxChanges == 3

ChangeableEnv ==
    [GITHUB_ACTIONS |-> {None, "true"},
     AWS_ACCESS_KEY_ID |-> {None, "AKIA"},
     AWS_ROLE_ARN |-> {None, "arn:role"},
     GOOGLE_APPLICATION_CREDENTIALS |-> {None, "/key.json"},
     AZURE_CLIENT_ID |-> {None, "client"},
     AI_OBSERVABILITY_SIMULATION |-> {None, "true"}]

ChangeableInfra ==
    [kubectl_version |-> {"rc0", "rc1", "raise"},
     node_provider |-> {"nopath", "aws", "azure"},
     cluster_info |-> {"local", "remote"},
     docker_info |-> {"desktop", "engine"}]

InitCache ==
    /\ environ = BareEnviron
    /\ infra = BareInfra
    /\ config = NoConfig
    /\ returned = NoConfig
    /\ probesRun = 0
    /\ calls = 0
    /\ changes = 0
    /\ PROM_URL = Undefined
    /\ GRAFANA_URL = Undefined
    /\ riskArgs = NoArgs
    /\ riskResult = NoResult
    /\ healthIn = NoHealthIn
    /\ health_analysis = NoAnalysis
    /\ hpc = "idle"
    /\ simLoop = NoSimLoop
    /\ aggIn = NoArgs
    /\ aggOut = NoResult
    /\ driverIn = NoDriverIn
    /\ proc = <<>>
    /\ run = <<>>
    /\ toolIn = NoTool
    /\ toolOut = NoResult
    /\ PROM_URL = Undefined
    /\ GRAFANA_URL = Undefined
    /\ riskArgs = NoArgs
    /\ riskResult = NoResult
    /\ healthIn = NoHealthIn
    /\ health_analysis = NoAnalysis
    /\ hpc = "idle"
    /\ simLoop = NoSimLoop
    /\ aggIn = NoArgs
    /\ aggOut = NoResult
    /\ driverIn = NoDriverIn
    /\ proc = <<>>
    /\ run = <<>>
    /\ toolIn = NoTool
    /\ toolOut = NoResult
    /\ PROM_URL = Undefined
    /\ GRAFANA_URL = Undefined
    /\ riskArgs = NoArgs
    /\ riskResult = NoResult
    /\ healthIn = NoHealthIn
    /\ health_analysis = NoAnalysis
    /\ hpc = "idle"
    /\ simLoop = NoSimLoop
    /\ aggIn = NoArgs
    /\ aggOut = NoResult
    /\ driverIn = NoDriverIn
    /\ proc = <<>>
    /\ run = <<>>
    /\ toolIn = NoTool
    /\ toolOut = NoResult

\* something outside the detector sets or unsets an environment variable
SetEnv ==
    /\ changes < MaxChanges
    /\ \E n \in DOMAIN ChangeableEnv : \E v \in ChangeableEnv[n] :
          /\ environ[n] # v
          /\ environ' = [environ EXCEPT ![n] = v]
    /\ changes' = changes + 1
    /\ UNCHANGED <<infra, config, returned, probesRun, calls, urlVars, riskVars, healthVars, aggVars, driverVars, toolVars>>

\* the cluster, the node metadata or the container runtime starts answering differently
SetInfra ==
    /\ changes < MaxChanges
    /\ \E f \in DOMAIN ChangeableInfra : \E v \in ChangeableInfra[f] :
          /\ infra[f] # v
          /\ infra' = [infra EXCEPT ![f] = v]
    /\ changes' = changes + 1
    /\ UNCHANGED <<environ, config, returned, probesRun, calls, urlVars, riskVars, healthVars, aggVars, driverVars, toolVars>>

\* ai-agent.py, after detection: no AWS credentials found and the simulation flag
\* not set, so the agent sets AI_OBSERVABILITY_SIMULATION itself
SimulationFallback ==
    /\ config # NoConfig
    /\ Lower(getenv(environ, "AI_OBSERVABILITY_SIMULATION", "false")) # "true"
    /\ \E boto3_credentials \in BOOLEAN :
          ~((Truthy(environ.AWS_ACCESS_KEY_ID) /\ Truthy(environ.AWS_SECRET_ACCESS_KEY))
            \/ boto3_credentials)
    /\ environ' = [environ EXCEPT !["AI_OBSERVABILITY_SIMULATION"] = "true"]
    /\ UNCHANGED <<infra, config, returned, probesRun, calls, changes, urlVars, riskVars, healthVars, aggVars, driverVars, toolVars>>

NextCache == DetectEnvironment \/ SetEnv \/ SetInfra \/ SimulationFallback

SpecCache == InitCache /\ [][NextCache]_vars

(***************************************************************************)
(* ai-agent.py : endpoint resolution at import (lines 35-50)               *)
(***************************************************************************)
MockPromURL == "http://mock-prometheus"
MockGrafanaURL == "http://mock-grafana"

\* one endpoint: the environment variable, else the detected endpoint,
\* and the mock URL whenever the profile is SIMULATION
ResolveEndpoint(override, detected, env_type, mock) ==
    LET configured == IF override = None THEN "" ELSE override   \* os.getenv(name, "")
        chosen == IF ~Truthy(configured) /\ Truthy(detected) THEN detected ELSE configured
    IN  IF env_type = "simulation" THEN mock ELSE chosen

(***************************************************************************)
(* SpecResolve: the import of ai-agent.py up to the resolved endpoints     *)
(***************************************************************************)
ResolveEnvirons ==
    [GITHUB_ACTIONS : {None, "true"},
     AWS_ACCESS_KEY_ID : {None, "AKIA"},
     AWS_ROLE_ARN : {None},
     GOOGLE_APPLICATION_CREDENTIALS : {None, "/key.json"},
     AZURE_CLIENT_ID : {None},
     AI_OBSERVABILITY_SIMULATION : {None, "true"},
     AWS_REGION : {None}, AWS_DEFAULT_REGION : {None},
     GOOGLE_CLOUD_PROJECT : {None}, AZURE_SUBSCRIPTION_ID : {None},
     PROM_URL : {None, "", "http://custom:9090"},
     GRAFANA_URL : {None, "http://custom:3000"},
     AWS_SECRET_ACCESS_KEY : {None}]

ResolveInfras ==
    [kubectl_version : {"rc0", "rc1"},
     node_provider : {"nopath", "aws", "azure"},
     gke_metadata : {"404"},
     cluster_info : {"local", "remote"},
     docker_info : {"desktop", "engine"},
     svc_list : {"none", "prometheus", "both"},
     unexpected : {{}}]

InitResolve ==
    /\ environ \in ResolveEnvirons
    /\ infra \in ResolveInfras
    /\ config = NoConfig
    /\ returned = NoConfig
    /\ probesRun = 0
    /\ calls = 0
    /\ changes = 0
    /\ PROM_URL = Undefined
    /\ GRAFANA_URL = Undefined
    /\ riskArgs = NoArgs
    /\ riskResult = NoResult
    /\ healthIn = NoHealthIn
    /\ health_analysis = NoAnalysis
    /\ hpc = "idle"
    /\ simLoop = NoSimLoop
    /\ aggIn = NoArgs
    /\ aggOut = NoResult
    /\ driverIn = NoDriverIn
    /\ proc = <<>>
    /\ run = <<>>
    /\ toolIn = NoTool
    /\ toolOut = NoResult

\* env_config = env_detector.detect_environment(), once at import
ImportDetect ==
    /\ calls = 0
    /\ LET r == detect_environment(config, environ, infra)
       IN  /\ config' = r.config
           /\ returned' = r.returned
           /\ probesRun' = probesRun + r.probes
    /\ calls' = calls + 1
    /\ UNCHANGED <<environ, infra, changes, urlVars, riskVars, healthVars, aggVars, driverVars, toolVars>>

\* lines 36-50: PROM_URL and GRAFANA_URL
ResolveEndpoints ==
    /\ config # NoConfig
    /\ PROM_URL = Undefined
    /\ PROM_URL' = ResolveEndpoint(environ.PROM_URL, config.monitoring_endpoints.prometheus,
                                   config.env_type, MockPromURL)
    /\ GRAFANA_URL' = ResolveEndpoint(environ.GRAFANA_URL, config.monitoring_endpoints.grafana,
                                      config.env_type, MockGrafanaURL)
    /\ UNCHANGED <<detVars, riskVars, healthVars, aggVars, driverVars, toolVars>>

NextResolve == ImportDetect \/ ResolveEndpoints

SpecResolve == InitResolve /\ [][NextResolve]_vars

(***************************************************************************)
(* ai-agent.py : _calculate_ai_risk_score                                  *)
(* A pod status is [phase, ready_condition, containerStatuses]; a          *)
(* container status is [ready, restartCount, waiting] with waiting the     *)
(* reason of state.waiting, None when the container is not waiting.        *)
(* Every term of the score is a whole number, so the float is an integer.  *)
(***************************************************************************)
Min(a, b) == IF a <= b THEN a ELSE b
Max(a, b) == IF a >= b THEN a ELSE b

\* pod_status.get("phase", "Unknown")
PhaseOf(pod_status) == IF pod_status.phase = None THEN "Unknown" ELSE pod_status.phase

\* the risk one container adds: 20 when not ready, 30 when waiting in a crash / pull loop
ContainerRisk(container) ==
    (IF ~container.ready THEN 20 ELSE 0)
    + (IF container.waiting \in {"CrashLoopBackOff", "ImagePullBackOff"} THEN 30 ELSE 0)

RECURSIVE ContainersRisk(_)
ContainersRisk(containers) ==
    IF containers = <<>> THEN 0
    ELSE ContainerRisk(Head(containers)) + ContainersRisk(Tail(containers))

\* the score before the final min(risk_score, 100.0)
RawRiskScore(pod_status, restarts) ==
    Min(restarts * 20, 60)
    + (IF PhaseOf(pod_status) # "Running" THEN 40 ELSE 0)
    + ContainersRisk(pod_status.containerStatuses)

\* the score returned without the final clamp
_calculate_ai_risk_score_unclamped(pod_status, restarts) ==
    RawRiskScore(pod_status, restarts)

_calculate_ai_risk_score(pod_status, restarts) ==
    Min(RawRiskScore(pod_status, restarts), 100)

(***************************************************************************)
(* SpecRisk: _calculate_ai_risk_score applied to bounded inputs            *)
(***************************************************************************)
\* the longest container list of a pod
MaxContainers == 3

RECURSIVE SeqsUpTo(_, _)
SeqsUpTo(S, n) ==
    IF n = 0 THEN {<<>>}
    ELSE LET shorter == SeqsUpTo(S, n - 1)
         IN  shorter \cup {Append(q, x) : q \in shorter, x \in S}

RiskContainers ==
    [ready : BOOLEAN, restartCount : {0},
     waiting : {None, "CrashLoopBackOff", "ImagePullBackOff", "ContainerCreating"}]

RiskPodStatuses ==
    [phase : {None, "Running", "Pending", "Failed"},
     ready_condition : {"True"},
     containerStatuses : SeqsUpTo(RiskContainers, MaxContainers)]

RiskRestarts == {0, 1, 2, 3, 4, 1000}

InitRisk ==
    /\ environ = BareEnviron
    /\ infra = BareInfra
    /\ config = NoConfig
    /\ returned = NoConfig
    /\ probesRun = 0
    /\ calls = 0
    /\ changes = 0
    /\ PROM_URL = Undefined
    /\ GRAFANA_URL = Undefined
    /\ riskArgs \in [pod_status : RiskPodStatuses, restarts : RiskRestarts]
    /\ riskResult = NoResult
    /\ healthIn = NoHealthIn
    /\ health_analysis = NoAnalysis
    /\ hpc = "idle"
    /\ simLoop = NoSimLoop
    /\ aggIn = NoArgs
    /\ aggOut = NoResult
    /\ driverIn = NoDriverIn
    /\ proc = <<>>
    /\ run = <<>>
    /\ toolIn = NoTool
    /\ toolOut = NoResult

CalculateRiskScore ==
    /\ riskResult = NoResult
    /\ riskResult' = Result(_calculate_ai_risk_score(riskArgs.pod_status, riskArgs.restarts))
    /\ UNCHANGED <<detVars, urlVars, riskArgs, healthVars, aggVars, driverVars, toolVars>>

NextRisk == CalculateRiskScore

SpecRisk == InitRisk /\ [][NextRisk]_vars

(***************************************************************************)
(* ai-agent.py : analyze_system_health                                     *)
(* Scores are exact fractions [num, den] (den > 0); confidences and        *)
(* probabilities are kept in hundredths (90 stands for 0.9).               *)
(***************************************************************************)
Frac(n, d) == [num |-> n, den |-> d]
FracLess(f, n) == f.num < n * f.den          \* f < n
FracAtMost(f, n) == f.num <= n * f.den       \* f <= n
FracAtLeast(f, n) == f.num >= n * f.den      \* f >= n
FracLeq(f, g) == f.num * g.den <= g.num * f.den   \* f <= g

\* a snapshot that starts from score 0 instead of 100
NewAnalysis_zero_score ==
    [health_score |-> Frac(0, 1), pods |-> <<>>, ai_insights |-> <<>>,
     predictions |-> <<>>, correlations |-> <<>>, recommendations |-> <<>>,
     traceability |-> <<>>, error |-> None]

\* the dict analyze_system_health starts from
NewAnalysis ==
    [health_score |-> Frac(100, 1), pods |-> <<>>, ai_insights |-> <<>>,
     predictions |-> <<>>, correlations |-> <<>>, recommendations |-> <<>>,
     traceability |-> <<>>, error |-> None]

\* analysis["pods"][name] = value
PutPod(pods, name, value) == (name :> value) @@ pods

\* ready: a condition of type Ready with status "True" exists
PodReady(pod_status) == pod_status.ready_condition = "True"

\* restarts: the sum of restartCount over the container statuses
RECURSIVE SumRestarts(_)
SumRestarts(containers) ==
    IF containers = <<>> THEN 0
    ELSE Head(containers).restartCount + SumRestarts(Tail(containers))

\* container_issues: one entry per waiting container (its reason)
RECURSIVE ContainerIssues(_)
ContainerIssues(containers) ==
    IF containers = <<>> THEN <<>>
    ELSE (IF Head(containers).waiting # None THEN <<Head(containers).waiting>> ELSE <<>>)
         \o ContainerIssues(Tail(containers))

\* the pod_health dict of one listed pod
PodHealth(pod) ==
    LET restarts == SumRestarts(pod.status.containerStatuses)
    IN  [phase |-> PhaseOf(pod.status), ready |-> PodReady(pod.status), restarts |-> restarts,
         age |-> pod.age, ai_risk_score |-> _calculate_ai_risk_score(pod.status, restarts),
         container_issues |-> ContainerIssues(pod.status.containerStatuses)]

\* the body of "for pod in pods_data.get('items', [])" for one pod
AnalyzePod(acc, pod) ==
    LET h == PodHealth(pod)
        a == acc.analysis
        insights == IF h.restarts > 0
                    THEN Append(a.ai_insights,
                                [type |-> "stability_concern", confidence |-> 90, impact |-> "medium"])
                    ELSE a.ai_insights
        predictions == IF h.ai_risk_score > 70
                       THEN Append(a.predictions,
                                   [type |-> "failure_prediction", probability |-> h.ai_risk_score,
                                    timeframe |-> "30 minutes"])
                       ELSE a.predictions
    IN  [raised |-> FALSE,
         ready_pods |-> acc.ready_pods + (IF h.ready THEN 1 ELSE 0),
         analysis |-> [a EXCEPT !.pods = PutPod(a.pods, pod.name, h),
                                !.ai_insights = insights,
                                !.predictions = predictions]]

\* the loop over the listed pods; an item that cannot be read raises (KeyError)
\* before anything of it has been stored
RECURSIVE AnalyzePods(_, _)
AnalyzePods(acc, items) ==
    IF items = <<>> THEN acc
    ELSE IF Head(items).malformed
         THEN [acc EXCEPT !.raised = TRUE]
         ELSE AnalyzePods(AnalyzePod(acc, Head(items)), Tail(items))

\* sum(pod["ai_risk_score"] for pod in analysis["pods"].values())
RECURSIVE RiskSum(_, _)
RiskSum(pods, names) ==
    IF names = {} THEN 0
    ELSE LET n == CHOOSE x \in names : TRUE
         IN  pods[n].ai_risk_score + RiskSum(pods, names \ {n})

\* lines 215-220 with the max(0, ...) left out
OverallHealthScore_unclamped(ready_pods, total_pods, pods) ==
    LET count == Cardinality(DOMAIN pods)
    IN  IF count = 0 THEN Frac(100 * ready_pods, total_pods)
        ELSE Frac(1000 * ready_pods * count - 3 * RiskSum(pods, DOMAIN pods) * total_pods,
                  10 * total_pods * count)

\* lines 215-220 with the risk penalty added instead of subtracted
OverallHealthScore_penalty_added(ready_pods, total_pods, pods) ==
    LET count == Cardinality(DOMAIN pods)
    IN  IF count = 0 THEN Frac(100 * ready_pods, total_pods)
        ELSE Frac(Max(0, 1000 * ready_pods * count + 3 * RiskSum(pods, DOMAIN pods) * total_pods),
                  10 * total_pods * count)

\* lines 215-220 with the risk penalty taken whole instead of times 0.3
OverallHealthScore_whole_penalty(ready_pods, total_pods, pods) ==
    LET count == Cardinality(DOMAIN pods)
    IN  IF count = 0 THEN Frac(Max(0, 100 * ready_pods), total_pods)
        ELSE Frac(Max(0, 100 * ready_pods * count - RiskSum(pods, DOMAIN pods) * total_pods),
                  total_pods * count)

\* lines 215-220, for total_pods > 0:
\*   base_score = ready_pods / total_pods * 100
\*   risk_penalty = sum of ai_risk_score / len(pods)   (0 when there is no pod)
\*   health_score = max(0, base_score - risk_penalty * 0.3)
OverallHealthScore(ready_pods, total_pods, pods) ==
    LET count == Cardinality(DOMAIN pods)
    IN  IF count = 0 THEN Frac(Max(0, 100 * ready_pods), total_pods)
        ELSE Frac(Max(0, 1000 * ready_pods * count - 3 * RiskSum(pods, DOMAIN pods) * total_pods),
                  10 * total_pods * count)

\* requests.get(f"{PROM_URL}/api/v1/query"): an empty URL cannot be fetched
PromAnswer(prom_url, answer) == IF ~Truthy(prom_url) THEN "raise" ELSE answer

\* _correlate_metrics_with_pods: a correlation when the error rate is above 0.01
_correlate_metrics_with_pods(analysis, prom_url, error_rate) ==
    IF PromAnswer(prom_url, error_rate) = "high"
    THEN [analysis EXCEPT !.correlations =
             Append(@, [type |-> "metric_pod_correlation", confidence |-> 80])]
    ELSE analysis    \* no result, a low value, a non-200 answer or an exception

_generate_ai_recommendations(analysis) ==
    LET first == IF FracLess(analysis.health_score, 50)
                 THEN <<[priority |-> "critical", action |-> "immediate_investigation"]>>
                 ELSE IF FracLess(analysis.health_score, 80)
                 THEN <<[priority |-> "medium", action |-> "proactive_monitoring"]>>
                 ELSE <<>>
        second == IF analysis.predictions # <<>>
                  THEN <<[priority |-> "proactive", action |-> "preventive_scaling"]>>
                  ELSE <<>>
    IN  [analysis EXCEPT !.recommendations = @ \o first \o second]

\* an except branch that records the error text only
WithSystemError_error_only(analysis) == [analysis EXCEPT !.error = "error"]

\* the except branch of analyze_system_health
WithSystemError(analysis) ==
    [analysis EXCEPT !.error = "error",
                     !.ai_insights = Append(@, [type |-> "system_error", confidence |-> 100,
                                                impact |-> "high"])]

\* the Kubernetes branch of analyze_system_health (lines 148-245)
\*   inp.pods_cmd : "ok" (rc 0, JSON), "rc1" (rc # 0), "badjson" (rc 0, no JSON),
\*                  "raise" (timeout, kubectl missing)
\*   inp.items    : the listed pods,  inp.error_rate : the Prometheus answer
ClusterHealthAnalysis(analysis, prom_url, inp) ==
    IF inp.pods_cmd \in {"raise", "badjson"} THEN WithSystemError(analysis)
    ELSE LET listed ==
                 IF inp.pods_cmd = "ok"
                 THEN AnalyzePods([raised |-> FALSE, ready_pods |-> 0, analysis |-> analysis],
                                  inp.items)
                 ELSE [raised |-> FALSE, ready_pods |-> 0, analysis |-> analysis]
             total_pods == Len(inp.items)
             scored ==
                 IF inp.pods_cmd = "ok" /\ total_pods > 0
                 THEN [listed.analysis EXCEPT !.health_score =
                          OverallHealthScore(listed.ready_pods, total_pods, listed.analysis.pods)]
                 ELSE listed.analysis
             advised == _generate_ai_recommendations(
                            _correlate_metrics_with_pods(scored, prom_url, inp.error_rate))
         IN  IF listed.raised THEN WithSystemError(listed.analysis)
             ELSE [advised EXCEPT !.traceability =
                      Append(@, [source |-> "kubernetes_api",
                                 data_points |-> Cardinality(DOMAIN advised.pods)])]

\* the external branch without its fallback estimate (lines 890-897 left out)
_generate_external_health_analysis_no_fallback(analysis, cfg, prom_url, inp) ==
    LET queried == Truthy(prom_url) /\ prom_url # MockPromURL
        a1 == [analysis EXCEPT
                  !.health_score = Frac(Min(100, Max(0, (IF queried THEN inp.up_count ELSE 0) * 20)), 1),
                  !.ai_insights = Append(@, [type |-> "external_monitoring",
                                             confidence |-> 80, impact |-> "medium"])]
        a3 == IF cfg.env_type = "github_actions"
              THEN [a1 EXCEPT !.recommendations =
                       Append(@, [priority |-> "medium", action |-> "enable_cluster_access"])]
              ELSE a1
    IN  [a3 EXCEPT !.traceability = Append(@, [source |-> "external_monitoring"])]

\* _generate_external_health_analysis (lines 849-915)
\*   inp.up_count      : number of series the "up" query returned (0: no result)
\*   inp.other_metrics : whether the error-rate or latency query returned a result
_generate_external_health_analysis(analysis, cfg, prom_url, inp) ==
    LET queried == Truthy(prom_url) /\ prom_url # MockPromURL
        external_metrics == queried /\ (inp.up_count > 0 \/ inp.other_metrics)
        a1 == IF external_metrics
              THEN [analysis EXCEPT
                       !.health_score = Frac(Min(100, Max(0, inp.up_count * 20)), 1),
                       !.ai_insights = Append(@, [type |-> "external_monitoring",
                                                  confidence |-> 80, impact |-> "medium"])]
              ELSE analysis
        a2 == IF a1.ai_insights = <<>>
              THEN [a1 EXCEPT
                       !.health_score = Frac(75, 1),
                       !.ai_insights = Append(@, [type |-> "limited_visibility",
                                                  confidence |-> 60, impact |-> "medium"])]
              ELSE a1
        a3 == IF cfg.env_type = "github_actions"
              THEN [a2 EXCEPT !.recommendations =
                       Append(@, [priority |-> "medium", action |-> "enable_cluster_access"])]
              ELSE a2
    IN  [a3 EXCEPT !.traceability = Append(@, [source |-> "external_monitoring"])]

(***************************************************************************)
(* ai-agent.py : _generate_simulation_health_analysis (lines 768-847)      *)
(***************************************************************************)
\* random.randint(3, 8)
SimMinPods == 3
SimMaxPods == 8

\* f"app-{random.choice([...])}-{random.randint(1000, 9999)}": names can repeat
SimPodNames == {"app-frontend-1000", "app-backend-1000", "app-api-9999"}

\* one generated pod; the random ranges are taken at their ends
SimPods ==
    [phase : {"Running"}, ready : {TRUE}, restarts : {0}, age : {10},
     ai_risk_score : {0, 30}, container_issues : {<<>>}]
    \cup
    {[phase |-> "Pending", ready |-> FALSE, restarts |-> 0, age |-> 10,
      ai_risk_score |-> 40, container_issues |-> <<"ImagePullBackOff">>],
     [phase |-> "Failed", ready |-> FALSE, restarts |-> 2, age |-> 10,
      ai_risk_score |-> 80, container_issues |-> <<"ImagePullBackOff">>]}

\* sum(1 for pod in analysis["pods"].values() if pod["ready"])
ReadyCount(pods) == Cardinality({n \in DOMAIN pods : pods[n].ready})

\* lines 793-847: the score and the records added after the loop
SimulationSummary(a, num_pods) ==
    LET score == IF num_pods > 0 THEN (ReadyCount(a.pods) * 100) \div num_pods ELSE 100
    IN  [a EXCEPT
           !.health_score = Frac(score, 1),
           !.ai_insights = @ \o <<[type |-> "simulation_mode",
                                   message |-> "Running in simulation mode - data is generated",
                                   confidence |-> 100, impact |-> "info"],
                                  [type |-> "environment_detection",
                                   message |-> "Environment auto-detected as simulation",
                                   confidence |-> 100, impact |-> "info"]>>,
           !.predictions = IF score < 90
                           THEN Append(@, [type |-> "performance_trend",
                                           message |-> "System performance trending stable",
                                           probability |-> 75,
                                           timeframe |-> "next 30 minutes"])
                           ELSE @,
           !.recommendations = @ \o <<[priority |-> "info", action |-> "simulation_validation"],
                                      [priority |-> "medium", action |-> "setup_real_monitoring"]>>,
           !.traceability = Append(@, [source |-> "simulation_engine",
                                       data_points |-> Cardinality(DOMAIN a.pods)])]

(***************************************************************************)
(* SpecHealth: analyze_system_health in a process that has been imported   *)
(***************************************************************************)
\* the longest pod list kubectl returns
MaxPods == 3

PodName(i) == <<"pod-1", "pod-2", "pod-3", "pod-4", "pod-5", "pod-6">>[i]

Container(ready, restartCount, waiting) ==
    [ready |-> ready, restartCount |-> restartCount, waiting |-> waiting]

\* the pods a listing is made of: healthy; restarted once but ready; not ready after
\* two restarts; in a crash loop; pending without conditions; pending on an image pull
PodCatalog ==
    {[malformed |-> FALSE, age |-> 30,
      status |-> [phase |-> "Running", ready_condition |-> "True",
                  containerStatuses |-> <<Container(TRUE, 0, None)>>]],
     [malformed |-> FALSE, age |-> 30,
      status |-> [phase |-> "Running", ready_condition |-> "True",
                  containerStatuses |-> <<Container(TRUE, 1, None)>>]],
     [malformed |-> FALSE, age |-> 30,
      status |-> [phase |-> "Running", ready_condition |-> "False",
                  containerStatuses |-> <<Container(TRUE, 2, None)>>]],
     [malformed |-> FALSE, age |-> 5,
      status |-> [phase |-> "Running", ready_condition |-> "False",
                  containerStatuses |-> <<Container(FALSE, 5, "CrashLoopBackOff")>>]],
     [malformed |-> FALSE, age |-> 0,
      status |-> [phase |-> None, ready_condition |-> "absent",
                  containerStatuses |-> <<>>]],
     [malformed |-> FALSE, age |-> 1,
      status |-> [phase |-> "Pending", ready_condition |-> "False",
                  containerStatuses |-> <<Container(FALSE, 0, "ImagePullBackOff")>>]],
     [malformed |-> TRUE, age |-> 0,
      status |-> [phase |-> None, ready_condition |-> "absent",
                  containerStatuses |-> <<>>]]}

\* kubectl's items: pod names are unique within a namespace
Items(entries) ==
    [i \in 1..Len(entries) |->
        [name |-> PodName(i), status |-> entries[i].status, age |-> entries[i].age,
         malformed |-> entries[i].malformed]]

PodLists == {Items(q) : q \in SeqsUpTo(PodCatalog, MaxPods)}

HealthEnvirons ==
    [GITHUB_ACTIONS : {None, "true"},
     AWS_ACCESS_KEY_ID : {None}, AWS_ROLE_ARN : {None},
     GOOGLE_APPLICATION_CREDENTIALS : {None}, AZURE_CLIENT_ID : {None},
     AI_OBSERVABILITY_SIMULATION : {None, "true"},
     AWS_REGION : {None}, AWS_DEFAULT_REGION : {None},
     GOOGLE_CLOUD_PROJECT : {None}, AZURE_SUBSCRIPTION_ID : {None},
     PROM_URL : {None, "http://custom:9090"},
     GRAFANA_URL : {None},
     AWS_SECRET_ACCESS_KEY : {None}]

HealthInfras ==
    [kubectl_version : {"rc0", "rc1"},
     node_provider : {"nopath"},
     gke_metadata : {"404"},
     cluster_info : {"local", "remote"},
     docker_info : {"engine"},
     svc_list : {"none"},
     unexpected : {{}}]

\* the branch analyze_system_health takes (lines 143-146)
HealthPath(cfg) ==
    IF cfg.env_type = "simulation" THEN "simulation"
    ELSE IF ~cfg.kubernetes_available THEN "external"
    ELSE "cluster"

\* the answers that matter on each branch
HealthInputs(path) ==
    CASE path = "cluster" ->
             [pods_cmd : {"ok"}, items : PodLists,
              error_rate : {"none", "low", "high", "raise"}, up_count : {0}, other_metrics : {FALSE}]
             \cup
             [pods_cmd : {"rc1", "badjson", "raise"}, items : {<<>>},
              error_rate : {"none", "high"}, up_count : {0}, other_metrics : {FALSE}]
      [] path = "external" ->
             [pods_cmd : {"rc1"}, items : {<<>>}, error_rate : {"none"},
              up_count : {0, 1, 3, 5, 6}, other_metrics : BOOLEAN]
      [] OTHER ->
             [pods_cmd : {"rc1"}, items : {<<>>}, error_rate : {"none"},
              up_count : {0}, other_metrics : {FALSE}]

\* the state after "import": the profile detected and the endpoints resolved
InitHealth ==
    /\ environ \in HealthEnvirons
    /\ infra \in HealthInfras
    /\ LET r == detect_environment(NoConfig, environ, infra)
       IN  /\ config = r.config
           /\ returned = r.returned
           /\ probesRun = r.probes
           /\ PROM_URL = ResolveEndpoint(environ.PROM_URL, r.config.monitoring_endpoints.prometheus,
                                         r.config.env_type, MockPromURL)
           /\ GRAFANA_URL = ResolveEndpoint(environ.GRAFANA_URL, r.config.monitoring_endpoints.grafana,
                                            r.config.env_type, MockGrafanaURL)
           /\ healthIn \in HealthInputs(HealthPath(r.config))
    /\ calls = 1
    /\ changes = 0
    /\ riskArgs = NoArgs
    /\ riskResult = NoResult
    /\ health_analysis = NoAnalysis
    /\ hpc = "idle"
    /\ simLoop = NoSimLoop
    /\ aggIn = NoArgs
    /\ aggOut = NoResult
    /\ driverIn = NoDriverIn
    /\ proc = <<>>
    /\ run = <<>>
    /\ toolIn = NoTool
    /\ toolOut = NoResult

\* analyze_system_health(): the Kubernetes and the external branch run to their
\* return; the simulation branch draws num_pods and enters its loop
AnalyzeSystemHealth ==
    /\ hpc = "idle"
    /\ config # NoConfig
    /\ CASE HealthPath(config) = "simulation" ->
              /\ \E num_pods \in SimMinPods..SimMaxPods :
                    simLoop' = [num_pods |-> num_pods, i |-> 0]
              /\ health_analysis' = NewAnalysis
              /\ hpc' = "sim_loop"
         [] HealthPath(config) = "external" ->
              /\ health_analysis' = _generate_external_health_analysis(NewAnalysis, config, PROM_URL, healthIn)
              /\ hpc' = "returned"
              /\ UNCHANGED simLoop
         [] OTHER ->
              /\ health_analysis' = ClusterHealthAnalysis(NewAnalysis, PROM_URL, healthIn)
              /\ hpc' = "returned"
              /\ UNCHANGED simLoop
    /\ UNCHANGED <<detVars, urlVars, riskVars, healthIn, aggVars, driverVars, toolVars>>

\* one turn of "for i in range(num_pods)"
SimGeneratePod ==
    /\ hpc = "sim_loop"
    /\ simLoop.i < simLoop.num_pods
    /\ \E pod_name \in SimPodNames : \E pod \in SimPods :
          health_analysis' = [health_analysis EXCEPT !.pods = PutPod(@, pod_name, pod)]
    /\ simLoop' = [simLoop EXCEPT !.i = @ + 1]
    /\ UNCHANGED <<detVars, urlVars, riskVars, healthIn, hpc, aggVars, driverVars, toolVars>>

\* the rest of _generate_simulation_health_analysis, and its return
SimFinish ==
    /\ hpc = "sim_loop"
    /\ simLoop.i = simLoop.num_pods
    /\ health_analysis' = SimulationSummary(health_analysis, simLoop.num_pods)
    /\ hpc' = "returned"
    /\ UNCHANGED <<detVars, urlVars, riskVars, healthIn, simLoop, aggVars, driverVars, toolVars>>

NextHealth == AnalyzeSystemHealth \/ SimGeneratePod \/ SimFinish

SpecHealth == InitHealth /\ [][NextHealth]_vars

(***************************************************************************)
(* SpecAggregate: the overall score of two unit sets side by side          *)
(***************************************************************************)
\* the largest unit set compared
MaxUnits == 2

AggUnits == [ready : BOOLEAN, ai_risk_score : {0, 40, 100}]

\* the pods dict of a unit list
UnitDict(units) == [n \in {PodName(i) : i \in 1..Len(units)} |->
                       units[CHOOSE i \in 1..Len(units) : PodName(i) = n]]

\* the overall score analyze_system_health gives a listing of these units
UnitsScore(units) ==
    IF Len(units) > 0
    THEN OverallHealthScore(ReadyCount(UnitDict(units)), Len(units), UnitDict(units))
    ELSE Frac(100, 1)

InitAggregate ==
    /\ environ = BareEnviron
    /\ infra = BareInfra
    /\ config = NoConfig
    /\ returned = NoConfig
    /\ probesRun = 0
    /\ calls = 0
    /\ changes = 0
    /\ PROM_URL = Undefined
    /\ GRAFANA_URL = Undefined
    /\ riskArgs = NoArgs
    /\ riskResult = NoResult
    /\ healthIn = NoHealthIn
    /\ health_analysis = NoAnalysis
    /\ hpc = "idle"
    /\ simLoop = NoSimLoop
    /\ \E n \in 0..MaxUnits :
          aggIn \in [a : [1..n -> AggUnits], b : [1..n -> AggUnits]]
    /\ aggOut = NoResult
    /\ driverIn = NoDriverIn
    /\ proc = <<>>
    /\ run = <<>>
    /\ toolIn = NoTool
    /\ toolOut = NoResult

ComputeScores ==
    /\ ~aggOut.done
    /\ aggOut' = Result([a |-> UnitsScore(aggIn.a), b |-> UnitsScore(aggIn.b)])
    /\ UNCHANGED <<detVars, urlVars, riskVars, healthVars, aggIn, driverVars, toolVars>>

NextAggregate == ComputeScores

SpecAggregate == InitAggregate /\ [][NextAggregate]_vars

(***************************************************************************)
(* ai-agent.py : module state the driver reads (lines 66-108, 1027-1043)   *)
(***************************************************************************)
\* TELEGRAM_ENABLED = bool(TELEGRAM_BOT_TOKEN and TELEGRAM_CHAT_ID)
TelegramEnabled(token, chat_id) == Truthy(token) /\ Truthy(chat_id)

\* lines 76-108 and 1028-1043: simulation_mode, model and agent after import;
\* have_credentials: a key pair in the environment or in the boto3 session
ModuleState(sim_env, have_credentials) ==
    LET flag == Lower(IF sim_env = None THEN "false" ELSE sim_env) = "true"
        simulation_mode == IF flag THEN TRUE ELSE ~have_credentials
        model == IF ~flag /\ have_credentials THEN "BedrockModel" ELSE None
    IN  [sim_env |-> sim_env, have_credentials |-> have_credentials,
         simulation_mode |-> simulation_mode,
         agent |-> IF model # None THEN "Agent" ELSE None]

(***************************************************************************)
(* ai-agent.py : main (lines 1045-1217)                                    *)
(***************************************************************************)
\* elif health_score < 70
HealthThreshold == 70

\* if pod_info.get("ai_risk_score", 0) > 80
CriticalRisk == 80

\* lines 1063-1105: the query names the pods that are not ready, if any
BuildQuery(a) ==
    IF \E n \in DOMAIN a.pods : ~a.pods[n].ready THEN "critical_issues" ELSE "healthy"

\* lines 1147-1158: one count per pod that is not ready, one per pod above the risk limit
CountCriticalIssues(a) ==
    Cardinality({n \in DOMAIN a.pods : ~a.pods[n].ready})
    + Cardinality({n \in DOMAIN a.pods : a.pods[n].ai_risk_score > CriticalRisk})

\* lines 1183-1193: the exit code after the narrative returned
BlockingDecision(blocking_mode, critical_issues, health_score) ==
    IF blocking_mode
    THEN IF critical_issues > 0 THEN 1
         ELSE IF FracLess(health_score, HealthThreshold) THEN 1
         ELSE 0
    ELSE 0

\* the handler that lets a failed notification leave main(): the interpreter
\* ends with status 1 on an uncaught exception
ExceptExit_no_inner_try(notification) ==
    IF notification = "raised" THEN [exit_code |-> 0, status |-> 1]
    ELSE [exit_code |-> 2, status |-> 2]

\* lines 1206-1217: whatever the notification did, exit_code = 2 and sys.exit(2)
ExceptExit(notification) == [exit_code |-> 2, status |-> 2]

\* main() before its first statement
NewRun ==
    [pc |-> "start", blocking_mode |-> None, query |-> None, health_analysis |-> NoAnalysis,
     analysis_calls |-> 0, critical_issues |-> 0, exit_code |-> None, result |-> None,
     raised |-> FALSE, notification |-> "not_attempted", status |-> None]

(***************************************************************************)
(* SpecDriver / SpecDriverPair: runs of main() over given snapshots        *)
(***************************************************************************)
HealthyPod ==
    [malformed |-> FALSE, age |-> 30,
     status |-> [phase |-> "Running", ready_condition |-> "True",
                 containerStatuses |-> <<Container(TRUE, 0, None)>>]]

NotReadyPod ==
    [malformed |-> FALSE, age |-> 30,
     status |-> [phase |-> "Running", ready_condition |-> "False",
                 containerStatuses |-> <<Container(TRUE, 2, None)>>]]

CrashLoopPod ==
    [malformed |-> FALSE, age |-> 5,
     status |-> [phase |-> "Running", ready_condition |-> "False",
                 containerStatuses |-> <<Container(FALSE, 5, "CrashLoopBackOff")>>]]

\* the Ready condition still "True" while a container is already waiting to restart
HighRiskReadyPod ==
    [malformed |-> FALSE, age |-> 30,
     status |-> [phase |-> "Running", ready_condition |-> "True",
                 containerStatuses |-> <<Container(TRUE, 3, "CrashLoopBackOff")>>]]

DriverListings ==
    {<<>>, <<HealthyPod>>, <<HealthyPod, HealthyPod, NotReadyPod>>, <<CrashLoopPod>>,
     <<HighRiskReadyPod>>}

SimReadyPod ==
    [phase |-> "Running", ready |-> TRUE, restarts |-> 0, age |-> 10,
     ai_risk_score |-> 0, container_issues |-> <<>>]

SimFailedPod ==
    [phase |-> "Failed", ready |-> FALSE, restarts |-> 2, age |-> 10,
     ai_risk_score |-> 80, container_issues |-> <<"ImagePullBackOff">>]

\* the snapshots analyze_system_health returns on each of its branches
DriverSnapshots(path) ==
    CASE path = "cluster" ->
           {ClusterHealthAnalysis(NewAnalysis, None,
                [pods_cmd |-> "ok", items |-> Items(q), error_rate |-> "none",
                 up_count |-> 0, other_metrics |-> FALSE]) : q \in DriverListings}
           \cup
           {ClusterHealthAnalysis(NewAnalysis, None,
                [pods_cmd |-> "raise", items |-> <<>>, error_rate |-> "none",
                 up_count |-> 0, other_metrics |-> FALSE])}
      [] path = "external" ->
           {_generate_external_health_analysis(NewAnalysis, _create_unknown_config,
                "http://custom:9090",
                [pods_cmd |-> "rc1", items |-> <<>>, error_rate |-> "none",
                 up_count |-> u, other_metrics |-> FALSE]) : u \in {3, 6}}
      [] OTHER ->
           {SimulationSummary([NewAnalysis EXCEPT !.pods = [n \in SimPodNames |-> SimReadyPod]], 3),
            SimulationSummary([NewAnalysis EXCEPT !.pods =
                 [n \in SimPodNames |-> IF n = "app-api-9999" THEN SimFailedPod ELSE SimReadyPod]], 3)}

DriverPaths == {"cluster", "external", "simulation"}

\* what the runs share: the flags in the environment and what the two
\* analyze_system_health calls of main() return
DriverInputs ==
    UNION {[path : {path},
            BLOCKING_MODE : {None, "TRUE", "false"},
            TELEGRAM_BOT_TOKEN : {"", "token"},
            TELEGRAM_CHAT_ID : {"", "chat"},
            first : DriverSnapshots(path),
            second : DriverSnapshots(path)] : path \in DriverPaths}

\* the module states a run can have; the SIMULATION profile needs the flag set
ModuleStates(path) ==
    {ModuleState(f, c) : f \in (IF path = "simulation" THEN {"true"} ELSE {None, "true"}),
                         c \in BOOLEAN}

InitRuns(ids) ==
    /\ environ = BareEnviron
    /\ infra = BareInfra
    /\ config = NoConfig
    /\ returned = NoConfig
    /\ probesRun = 0
    /\ calls = 0
    /\ changes = 0
    /\ PROM_URL = Undefined
    /\ GRAFANA_URL = Undefined
    /\ riskArgs = NoArgs
    /\ riskResult = NoResult
    /\ healthIn = NoHealthIn
    /\ health_analysis = NoAnalysis
    /\ hpc = "idle"
    /\ simLoop = NoSimLoop
    /\ aggIn = NoArgs
    /\ aggOut = NoResult
    /\ driverIn \in DriverInputs
    /\ proc \in [ids -> ModuleStates(driverIn.path)]
    /\ run = [r \in ids |-> NewRun]
    /\ toolIn = NoTool
    /\ toolOut = NoResult

InitDriver == InitRuns({"run"})

InitDriverPair == InitRuns({"one", "other"})

\* main() with a single analyze_system_health call whose snapshot serves both
\* the query and the decision
MainAnalyze_single_call(r) ==
    /\ run[r].pc = "start"
    /\ LET blocking_mode == Lower(IF driverIn.BLOCKING_MODE = None THEN "true"
                                  ELSE driverIn.BLOCKING_MODE) = "true"
           query == BuildQuery(driverIn.first)
           a == driverIn.first
           started == [run[r] EXCEPT !.blocking_mode = blocking_mode, !.query = query,
                                     !.health_analysis = a, !.analysis_calls = 1,
                                     !.exit_code = 0]
       IN  IF proc[r].simulation_mode \/ proc[r].agent = None
           THEN run' = [run EXCEPT ![r] = [started EXCEPT !.pc = "exited", !.status = 0]]
           ELSE run' = [run EXCEPT ![r] = [started EXCEPT
                                             !.critical_issues = CountCriticalIssues(a),
                                             !.pc = "awaiting_narrative"]]
    /\ UNCHANGED <<detVars, urlVars, riskVars, healthVars, aggVars, driverIn, proc, toolVars>>

\* main() from its first line to the first await or to its return (lines 1049-1167)
MainAnalyze(r) ==
    /\ run[r].pc = "start"
    /\ LET blocking_mode == Lower(IF driverIn.BLOCKING_MODE = None THEN "true"
                                  ELSE driverIn.BLOCKING_MODE) = "true"
           query == BuildQuery(driverIn.first)
           a == driverIn.second
           started == [run[r] EXCEPT !.blocking_mode = blocking_mode, !.query = query,
                                     !.health_analysis = a, !.analysis_calls = 2,
                                     !.exit_code = 0]
       IN  IF proc[r].simulation_mode \/ proc[r].agent = None
           THEN \* critical_issues is still 0: exit_code = 0; "return exit_code" ends
                \* main() without sys.exit, so the interpreter ends with status 0
                run' = [run EXCEPT ![r] = [started EXCEPT !.pc = "exited", !.status = 0]]
           ELSE run' = [run EXCEPT ![r] = [started EXCEPT
                                             !.critical_issues = CountCriticalIssues(a),
                                             !.pc = "awaiting_narrative"]]
    /\ UNCHANGED <<detVars, urlVars, riskVars, healthVars, aggVars, driverIn, proc, toolVars>>

\* agent.invoke_async(query) returns: lines 1169-1198 and sys.exit(exit_code)
NarrativeReturns(r) ==
    /\ run[r].pc = "awaiting_narrative"
    /\ \E text \in {"DEPLOYMENT BLOCKED", "DEPLOYMENT APPROVED", ""} :
          LET code == BlockingDecision(run[r].blocking_mode, run[r].critical_issues,
                                       run[r].health_analysis.health_score)
          IN  run' = [run EXCEPT ![r] = [@ EXCEPT !.result = text, !.exit_code = code,
                                                  !.status = code, !.pc = "exited"]]
    /\ UNCHANGED <<detVars, urlVars, riskVars, healthVars, aggVars, driverIn, proc, toolVars>>

\* agent.invoke_async(query) raises: the except branch up to its own await
NarrativeRaises(r) ==
    /\ run[r].pc = "awaiting_narrative"
    /\ IF TelegramEnabled(driverIn.TELEGRAM_BOT_TOKEN, driverIn.TELEGRAM_CHAT_ID)
          /\ proc[r].agent # None
       THEN run' = [run EXCEPT ![r] = [@ EXCEPT !.raised = TRUE,
                                                !.pc = "awaiting_notification"]]
       ELSE LET e == ExceptExit("not_attempted")
            IN  run' = [run EXCEPT ![r] = [@ EXCEPT !.raised = TRUE, !.exit_code = e.exit_code,
                                                    !.status = e.status, !.pc = "exited"]]
    /\ UNCHANGED <<detVars, urlVars, riskVars, healthVars, aggVars, driverIn, proc, toolVars>>

\* the notification call returns or raises; then exit_code = 2 and sys.exit
NotificationEnds(r) ==
    /\ run[r].pc = "awaiting_notification"
    /\ \E outcome \in {"sent", "raised"} :
          LET e == ExceptExit(outcome)
          IN  run' = [run EXCEPT ![r] = [@ EXCEPT !.notification = outcome,
                                                  !.exit_code = e.exit_code,
                                                  !.status = e.status, !.pc = "exited"]]
    /\ UNCHANGED <<detVars, urlVars, riskVars, healthVars, aggVars, driverIn, proc, toolVars>>

NextDriver ==
    \E r \in DOMAIN run :
        MainAnalyze(r) \/ NarrativeReturns(r) \/ NarrativeRaises(r) \/ NotificationEnds(r)

SpecDriver == InitDriver /\ [][NextDriver]_vars

SpecDriverPair == InitDriverPair /\ [][NextDriver]_vars

(***************************************************************************)
(* ai-agent.py : _analyze_trend_and_predict (lines 660-681) and its caller *)
(* predict_system_behavior (lines 359-364)                                 *)
(***************************************************************************)
\* if abs(trend_change) > 20
TrendThreshold == 20

RECURSIVE SumSeq(_)
SumSeq(q) == IF q = <<>> THEN 0 ELSE Head(q) + SumSeq(Tail(q))

Abs(n) == IF n >= 0 THEN n ELSE -n

\* values[-3:] and values[:-3]
LastThree(values) == SubSeq(values, Len(values) - 2, Len(values))
BeforeLastThree(values) == SubSeq(values, 1, Len(values) - 3)

\* a / b: ZeroDivisionError when b is zero
FracDiv(f, g) ==
    IF g.num = 0 THEN [raised |-> TRUE]
    ELSE [raised |-> FALSE,
          value |-> IF g.num > 0 THEN Frac(f.num * g.den, f.den * g.num)
                    ELSE Frac(-(f.num * g.den), -(f.den * g.num))]

\* trend_change computed without the "if older_avg > 0" guard
TrendChange_unguarded(values) ==
    LET recent_avg == Frac(SumSeq(LastThree(values)), 3)
        older_avg == IF Len(values) > 3
                     THEN Frac(SumSeq(BeforeLastThree(values)), Len(values) - 3)
                     ELSE recent_avg
        diff == Frac(recent_avg.num * older_avg.den - older_avg.num * recent_avg.den,
                     recent_avg.den * older_avg.den)
        q == FracDiv(diff, older_avg)
    IN  IF q.raised THEN q
        ELSE [raised |-> FALSE, value |-> Frac(q.value.num * 100, q.value.den)]

\* older_avg computed without the "if len(values) > 3" alternative: an empty
\* older window divides by its length, zero
TrendChange_no_length_guard(values) ==
    IF Len(values) <= 3 THEN [raised |-> TRUE]
    ELSE LET recent_avg == Frac(SumSeq(LastThree(values)), 3)
             older_avg == Frac(SumSeq(BeforeLastThree(values)), Len(values) - 3)
             diff == Frac(recent_avg.num * older_avg.den - older_avg.num * recent_avg.den,
                          recent_avg.den * older_avg.den)
         IN  IF older_avg.num > 0
             THEN LET q == FracDiv(diff, older_avg)
                  IN  IF q.raised THEN q
                      ELSE [raised |-> FALSE, value |-> Frac(q.value.num * 100, q.value.den)]
             ELSE [raised |-> FALSE, value |-> Frac(0, 1)]

\* lines 666-669: recent_avg, older_avg and trend_change (an exact fraction)
TrendChange(values) ==
    LET recent_avg == Frac(SumSeq(LastThree(values)), 3)
        older_avg == IF Len(values) > 3
                     THEN Frac(SumSeq(BeforeLastThree(values)), Len(values) - 3)
                     ELSE recent_avg
        diff == Frac(recent_avg.num * older_avg.den - older_avg.num * recent_avg.den,
                     recent_avg.den * older_avg.den)
    IN  IF older_avg.num > 0
        THEN LET q == FracDiv(diff, older_avg)
             IN  IF q.raised THEN q
                 ELSE [raised |-> FALSE, value |-> Frac(q.value.num * 100, q.value.den)]
        ELSE [raised |-> FALSE, value |-> Frac(0, 1)]

NoPrediction == [metric |-> None]

\* the confidence without the cap at 0.9
TrendConfidence_uncapped(abs_change) == Frac(abs_change.num, 50 * abs_change.den)

\* min(0.9, abs(trend_change) / 50)
TrendConfidence(abs_change) ==
    IF abs_change.num * 10 >= 9 * 50 * abs_change.den
    THEN Frac(9, 10)
    ELSE Frac(abs_change.num, 50 * abs_change.den)

\* the outcome of one call: [raised, value]; value is NoPrediction for "return None"
_analyze_trend_and_predict(metric_name, values) ==
    IF Len(values) < 3 THEN [raised |-> FALSE, value |-> NoPrediction]
    ELSE LET c == TrendChange(values)
         IN  IF c.raised THEN [raised |-> TRUE, value |-> NoPrediction]
             ELSE LET abs_change == Frac(Abs(c.value.num), c.value.den)
                  IN  IF abs_change.num > TrendThreshold * abs_change.den
                      THEN [raised |-> FALSE,
                            value |-> [metric |-> metric_name,
                                       trend |-> IF c.value.num > 0 THEN "increasing"
                                                 ELSE "decreasing",
                                       change_percent |-> abs_change,
                                       confidence |-> TrendConfidence(abs_change)]]
                      ELSE [raised |-> FALSE, value |-> NoPrediction]

\* lines 359-364: the predictions predict_system_behavior appends for one series;
\* an exception leaves the loop for the outer handler (lines 369-370)
TrendPredictions(metric_name, values) ==
    IF Len(values) >= 3
    THEN LET p == _analyze_trend_and_predict(metric_name, values)
         IN  IF p.raised THEN [error |-> "error", predictions |-> <<>>]
             ELSE IF p.value # NoPrediction
                  THEN [error |-> None, predictions |-> <<p.value>>]
                  ELSE [error |-> None, predictions |-> <<>>]
    ELSE [error |-> None, predictions |-> <<>>]

(***************************************************************************)
(* SpecTrend: the trend predictor applied to bounded series                *)
(***************************************************************************)
\* the longest series analysed
MaxSamples == 5

\* samples: whole numbers, so the averages and the percent change are exact
TrendValues == {-5, 0, 4, 5, 6, 10}

InitTrend ==
    /\ environ = BareEnviron
    /\ infra = BareInfra
    /\ config = NoConfig
    /\ returned = NoConfig
    /\ probesRun = 0
    /\ calls = 0
    /\ changes = 0
    /\ PROM_URL = Undefined
    /\ GRAFANA_URL = Undefined
    /\ riskArgs = NoArgs
    /\ riskResult = NoResult
    /\ healthIn = NoHealthIn
    /\ health_analysis = NoAnalysis
    /\ hpc = "idle"
    /\ simLoop = NoSimLoop
    /\ aggIn = NoArgs
    /\ aggOut = NoResult
    /\ driverIn = NoDriverIn
    /\ proc = <<>>
    /\ run = <<>>
    /\ toolIn \in [fn : {"predict_trend"}, metric_name : {"cpu_trend"},
                   values : SeqsUpTo(TrendValues, MaxSamples)]
    /\ toolOut = NoResult

\* a direct call of _analyze_trend_and_predict and the caller's loop body on the
\* same series
AnalyzeTrend ==
    /\ toolIn.fn = "predict_trend"
    /\ ~toolOut.done
    /\ toolOut' = Result([direct |-> _analyze_trend_and_predict(toolIn.metric_name, toolIn.values),
                          caller |-> TrendPredictions(toolIn.metric_name, toolIn.values)])
    /\ UNCHANGED <<detVars, urlVars, riskVars, healthVars, aggVars, driverVars, toolIn>>

NextTrend == AnalyzeTrend

SpecTrend == InitTrend /\ [][NextTrend]_vars

(***************************************************************************)
(* ai-agent.py : correlate_events_and_metrics (lines 248-312),             *)
(* _analyze_correlations (637-648), _generate_causal_chains (650-658)      *)
(***************************************************************************)
\* metric_queries, in dict order
MetricNames == <<"error_rate", "latency_p95", "cpu_usage", "memory_usage">>

\* metrics.get("error_rate", 0) > 0.01, metric values in thousandths
ErrorRateLimit == 10

\* datetime.fromisoformat(event["lastTimestamp"].replace("Z", "+00:00")) > cutoff_time:
\*   "aware_*"  a timestamp with Z or an offset: comparing it with the naive
\*              datetime.now() - timedelta(...) raises TypeError
\*   "naive_*"  a timestamp without offset: compared, recent or old
\*   "null"     lastTimestamp is null: None.replace raises AttributeError
EventIsRecent(event) ==
    CASE event.lastTimestamp = "naive_recent" -> [raised |-> FALSE, value |-> TRUE]
      [] event.lastTimestamp = "naive_old"    -> [raised |-> FALSE, value |-> FALSE]
      [] OTHER                                -> [raised |-> TRUE, value |-> FALSE]

\* the loop over events_data["items"]: the recent events, or the exception
RECURSIVE RecentEvents(_)
RecentEvents(items) ==
    IF items = <<>> THEN [raised |-> FALSE, events |-> <<>>]
    ELSE LET r == EventIsRecent(Head(items))
         IN  IF r.raised THEN [raised |-> TRUE, events |-> <<>>]
             ELSE LET rest == RecentEvents(Tail(items))
                  IN  IF rest.raised THEN rest
                      ELSE [raised |-> FALSE,
                            events |-> (IF r.value THEN <<Head(items)>> ELSE <<>>) \o rest.events]

\* lines 262-281: kubectl get events; a timeout or unparsable output raises,
\* a non-zero exit leaves recent_events empty
CollectEvents(inp) ==
    CASE inp.events_cmd \in {"timeout", "badjson"} -> [raised |-> TRUE, events |-> <<>>]
      [] inp.events_cmd = "rc1" -> [raised |-> FALSE, events |-> <<>>]
      [] OTHER -> RecentEvents(inp.events)

\* lines 291-300: one query per metric, each in its own try / bare except
RECURSIVE CollectMetrics(_, _)
CollectMetrics(answers, k) ==
    IF k > Len(MetricNames) THEN <<>>
    ELSE LET rest == CollectMetrics(answers, k + 1)
             a == answers[MetricNames[k]]
         IN  IF a.outcome = "value" THEN (MetricNames[k] :> a.value) @@ rest
             ELSE rest      \* non-200, empty result, exception: nothing stored

\* _analyze_correlations
_analyze_correlations(correlation, events, metrics) ==
    LET error_events == SelectSeq(events, LAMBDA e : e.type = "Warning")
        error_rate == IF "error_rate" \in DOMAIN metrics THEN metrics["error_rate"] ELSE 0
    IN  IF error_events # <<>> /\ error_rate > ErrorRateLimit
        THEN [correlation EXCEPT !.correlations_found =
                 Append(@, [type |-> "event_metric_correlation", confidence |-> 90,
                            events_count |-> Len(error_events)])]
        ELSE correlation

\* _generate_causal_chains
_generate_causal_chains(correlation, events, metrics) ==
    IF events # <<>> /\ DOMAIN metrics # {}
    THEN [correlation EXCEPT !.causal_chains =
             Append(@, [probability |-> 75, events |-> Len(events),
                        error_rate |-> IF "error_rate" \in DOMAIN metrics
                                       THEN metrics["error_rate"] ELSE 0])]
    ELSE correlation

NewCorrelation ==
    [correlations_found |-> <<>>, anomalies |-> <<>>, causal_chains |-> <<>>,
     error |-> None, metric_queries |-> 0, current_metrics |-> <<>>, analysed |-> FALSE]

\* the tool; metric_queries, current_metrics and analysed record how far it got
correlate_events_and_metrics(inp) ==
    LET collected == CollectEvents(inp)
    IN  IF collected.raised
        THEN [NewCorrelation EXCEPT !.error = "error"]     \* except Exception (line 309)
        ELSE LET current_metrics == CollectMetrics(inp.metrics, 1)
                 c0 == [NewCorrelation EXCEPT !.metric_queries = Len(MetricNames),
                                              !.current_metrics = current_metrics,
                                              !.analysed = TRUE]
                 c1 == _analyze_correlations(c0, collected.events, current_metrics)
             IN  _generate_causal_chains(c1, collected.events, current_metrics)

(***************************************************************************)
(* SpecCorrelate: correlate_events_and_metrics over bounded answers        *)
(***************************************************************************)
\* the longest event list kubectl returns
MaxEvents == 2

CorrelateEvents ==
    [lastTimestamp : {"aware_recent", "naive_recent", "naive_old", "null"},
     type : {"Warning", "Normal"}]

MetricAnswers ==
    [error_rate : [outcome : {"value"}, value : {1, 10, 50}]
                  \cup [outcome : {"non200", "raise"}, value : {0}],
     latency_p95 : [outcome : {"value", "raise"}, value : {200}],
     cpu_usage : [outcome : {"value", "empty"}, value : {40}],
     memory_usage : [outcome : {"value", "raise"}, value : {512}]]

CorrelateInputs ==
    [fn : {"correlate"}, events_cmd : {"ok"},
     events : SeqsUpTo(CorrelateEvents, MaxEvents), metrics : MetricAnswers]
    \cup
    [fn : {"correlate"}, events_cmd : {"rc1", "timeout", "badjson"},
     events : {<<>>}, metrics : MetricAnswers]

InitCorrelate ==
    /\ environ = BareEnviron
    /\ infra = BareInfra
    /\ config = NoConfig
    /\ returned = NoConfig
    /\ probesRun = 0
    /\ calls = 0
    /\ changes = 0
    /\ PROM_URL = Undefined
    /\ GRAFANA_URL = Undefined
    /\ riskArgs = NoArgs
    /\ riskResult = NoResult
    /\ healthIn = NoHealthIn
    /\ health_analysis = NoAnalysis
    /\ hpc = "idle"
    /\ simLoop = NoSimLoop
    /\ aggIn = NoArgs
    /\ aggOut = NoResult
    /\ driverIn = NoDriverIn
    /\ proc = <<>>
    /\ run = <<>>
    /\ toolIn \in CorrelateInputs
    /\ toolOut = NoResult

CorrelateEventsAndMetrics ==
    /\ toolIn.fn = "correlate"
    /\ ~toolOut.done
    /\ toolOut' = Result(correlate_events_and_metrics(toolIn))
    /\ UNCHANGED <<detVars, urlVars, riskVars, healthVars, aggVars, driverVars, toolIn>>

NextCorrelate == CorrelateEventsAndMetrics

SpecCorrelate == InitCorrelate /\ [][NextCorrelate]_vars

(***************************************************************************)
(* ai-agent.py : send_cicd_notification (lines 430-484)                    *)
(***************************************************************************)
\* emoji_map.get(severity.lower(), default)
SeverityEmoji(severity) ==
    LET sev == Lower(severity)
    IN  IF sev \in {"critical", "warning", "info", "success", "deployment", "rollback"}
        THEN sev ELSE "bell"

\* the tool without its try / except: a failed POST leaves the function as an exception
send_cicd_notification_no_try(token, chat_id, severity, post) ==
    IF ~TelegramEnabled(token, chat_id)
    THEN [raised |-> FALSE, result |-> "not_configured", network_calls |-> 0, emoji |-> None]
    ELSE IF post = "ok"
         THEN [raised |-> FALSE, result |-> "sent", network_calls |-> 1,
               emoji |-> SeverityEmoji(severity)]
         ELSE [raised |-> TRUE, result |-> None, network_calls |-> 1,
               emoji |-> SeverityEmoji(severity)]

\* post: what requests.post / raise_for_status do: "ok", "http_error" (a 4xx/5xx
\* answer), "timeout", "connection_error"
send_cicd_notification(token, chat_id, severity, post) ==
    IF ~TelegramEnabled(token, chat_id)
    THEN [raised |-> FALSE, result |-> "not_configured", network_calls |-> 0, emoji |-> None]
    ELSE IF post = "ok"
         THEN [raised |-> FALSE, result |-> "sent", network_calls |-> 1,
               emoji |-> SeverityEmoji(severity)]
         ELSE [raised |-> FALSE, result |-> "failed", network_calls |-> 1,
               emoji |-> SeverityEmoji(severity)]     \* except Exception (line 483)

(***************************************************************************)
(* SpecNotify: send_cicd_notification over its configurations              *)
(***************************************************************************)
NotifyInputs ==
    [fn : {"notify"},
     TELEGRAM_BOT_TOKEN : {"", "token"},
     TELEGRAM_CHAT_ID : {"", "chat"},
     severity : {"critical", "CRITICAL", "warning", "info", "success", "deployment",
                 "rollback", "other"},
     include_context : BOOLEAN,
     post : {"ok", "http_error", "timeout", "connection_error"}]

InitNotify ==
    /\ environ = BareEnviron
    /\ infra = BareInfra
    /\ config = NoConfig
    /\ returned = NoConfig
    /\ probesRun = 0
    /\ calls = 0
    /\ changes = 0
    /\ PROM_URL = Undefined
    /\ GRAFANA_URL = Undefined
    /\ riskArgs = NoArgs
    /\ riskResult = NoResult
    /\ healthIn = NoHealthIn
    /\ health_analysis = NoAnalysis
    /\ hpc = "idle"
    /\ simLoop = NoSimLoop
    /\ aggIn = NoArgs
    /\ aggOut = NoResult
    /\ driverIn = NoDriverIn
    /\ proc = <<>>
    /\ run = <<>>
    /\ toolIn \in NotifyInputs
    /\ toolOut = NoResult

SendCicdNotification ==
    /\ toolIn.fn = "notify"
    /\ ~toolOut.done
    /\ toolOut' = Result(send_cicd_notification(toolIn.TELEGRAM_BOT_TOKEN, toolIn.TELEGRAM_CHAT_ID,
                                                toolIn.severity, toolIn.post))
    /\ UNCHANGED <<detVars, urlVars, riskVars, healthVars, aggVars, driverVars, toolIn>>

NextNotify == SendCicdNotification

SpecNotify == InitNotify /\ [][NextNotify]_vars

(***************************************************************************)
(* ai-agent.py : explain_failure_with_context (lines 375-428) and its      *)
(* helpers.  The description is kept as [source, entries] instead of the   *)
(* joined text: source "units" with one entry per pod named, "anomalies",  *)
(* "none" for 'No active failures detected', "given" for a caller's text.  *)
(***************************************************************************)
\* the pods named when only readiness is looked at
FailureEntries_not_ready_only(health) ==
    {[pod |-> n, ready |-> health.pods[n].ready, restarts |-> health.pods[n].restarts] :
        n \in {m \in DOMAIN health.pods : ~health.pods[m].ready}}

\* lines 395-397: the pods named in the description
FailureEntries(health) ==
    {[pod |-> n, ready |-> health.pods[n].ready, restarts |-> health.pods[n].restarts] :
        n \in {m \in DOMAIN health.pods :
                   ~health.pods[m].ready \/ health.pods[m].restarts > 0}}

\* lines 390-405: the description and whether the fallback correlation was run
AutoDetect(health, correlation) ==
    LET failures == FailureEntries(health)
    IN  IF failures # {} THEN [source |-> "units", entries |-> failures]
        ELSE IF correlation.anomalies # <<>>
             THEN [source |-> "anomalies",
                   entries |-> {correlation.anomalies[k] : k \in DOMAIN correlation.anomalies}]
             ELSE [source |-> "none", entries |-> {}]

RECURSIVE RootCauses(_)
RootCauses(insights) ==
    IF insights = <<>> THEN <<>>
    ELSE (IF Head(insights).type = "stability_concern"
          THEN <<[cause |-> "pod_instability", confidence |-> Head(insights).confidence]>>
          ELSE <<>>) \o RootCauses(Tail(insights))

ContributingFactors(found) ==
    [k \in DOMAIN found |->
        [factor |-> "metric_event_correlation", confidence |-> found[k].confidence]]

\* _perform_root_cause_analysis
_perform_root_cause_analysis(explanation, health, correlation) ==
    [explanation EXCEPT
        !.root_cause_analysis = @ \o RootCauses(health.ai_insights),
        !.contributing_factors = @ \o ContributingFactors(correlation.correlations_found)]

RECURSIVE SumConfidence(_)
SumConfidence(entries) ==
    IF entries = <<>> THEN 0 ELSE Head(entries).confidence + SumConfidence(Tail(entries))

\* the score as the plain mean of all entries of both groups
_calculate_explanation_confidence_pooled(explanation) ==
    LET all == explanation.root_cause_analysis \o explanation.contributing_factors
    IN  IF all = <<>> THEN Frac(50, 1) ELSE Frac(SumConfidence(all), Len(all))

\* _calculate_explanation_confidence, in hundredths
_calculate_explanation_confidence(explanation) ==
    LET rca == explanation.root_cause_analysis
        cf == explanation.contributing_factors
        confidence_factors ==
            (IF rca # <<>> THEN <<Frac(SumConfidence(rca), Len(rca))>> ELSE <<>>)
            \o (IF cf # <<>> THEN <<Frac(SumConfidence(cf), Len(cf))>> ELSE <<>>)
    IN  IF Len(confidence_factors) = 2
        THEN Frac(confidence_factors[1].num * confidence_factors[2].den
                  + confidence_factors[2].num * confidence_factors[1].den,
                  2 * confidence_factors[1].den * confidence_factors[2].den)
        ELSE IF Len(confidence_factors) = 1 THEN confidence_factors[1]
        ELSE Frac(50, 1)

NewExplanation ==
    [failure_context |-> [description |-> None], root_cause_analysis |-> <<>>,
     contributing_factors |-> <<>>, resolution_steps |-> 0,
     confidence_score |-> Frac(0, 1), error |-> None]

\* the tool: inp.detect_health and inp.fallback_correlation are what the calls of
\* the auto-detect branch return, inp.context_health and inp.context_correlation
\* what the calls of lines 414-415 return
explain_failure_with_context(inp) ==
    LET description ==
            IF inp.failure_description = "auto-detect"
            THEN AutoDetect(inp.detect_health, inp.fallback_correlation)
            ELSE [source |-> "given", entries |-> {}]
        e1 == [NewExplanation EXCEPT !.failure_context = [description |-> description]]
        e2 == _perform_root_cause_analysis(e1, inp.context_health, inp.context_correlation)
        e3 == [e2 EXCEPT !.resolution_steps = 3]
    IN  [e3 EXCEPT !.confidence_score = _calculate_explanation_confidence(e3)]

(***************************************************************************)
(* SpecExplain: explain_failure_with_context over snapshots and            *)
(* correlation results the other tools return, and                         *)
(* _calculate_explanation_confidence over bounded explanations             *)
(***************************************************************************)
\* the longest entry list of an explanation handed to the confidence function
MaxEntries == 2

\* ready again after one restart
RestartedPod ==
    [malformed |-> FALSE, age |-> 30,
     status |-> [phase |-> "Running", ready_condition |-> "True",
                 containerStatuses |-> <<Container(TRUE, 1, None)>>]]

ExplainSnapshots(path) ==
    DriverSnapshots(path)
    \cup (IF path = "cluster"
          THEN {ClusterHealthAnalysis(NewAnalysis, None,
                    [pods_cmd |-> "ok", items |-> Items(q), error_rate |-> "none",
                     up_count |-> 0, other_metrics |-> FALSE]) :
                        q \in {<<RestartedPod>>, <<HealthyPod, RestartedPod, CrashLoopPod>>}}
          ELSE {})

ExplainCorrelations ==
    {correlate_events_and_metrics(
         [fn |-> "correlate", events_cmd |-> "ok", events |-> ev,
          metrics |-> [error_rate |-> [outcome |-> "value", value |-> rate],
                       latency_p95 |-> [outcome |-> "value", value |-> 200],
                       cpu_usage |-> [outcome |-> "value", value |-> 40],
                       memory_usage |-> [outcome |-> "value", value |-> 512]]]) :
        ev \in {<<>>, <<[lastTimestamp |-> "naive_recent", type |-> "Warning"]>>,
                <<[lastTimestamp |-> "aware_recent", type |-> "Warning"]>>},
        rate \in {1, 50}}

ConfidenceEntries ==
    SeqsUpTo([confidence : {0, 60, 90, 100}], MaxEntries)

ExplainInputs ==
    UNION {[fn : {"explain"}, failure_description : {"auto-detect", "pods are crashing"},
            detect_health : ExplainSnapshots(path), context_health : ExplainSnapshots(path),
            fallback_correlation : ExplainCorrelations,
            context_correlation : ExplainCorrelations] : path \in {"cluster", "simulation"}}
    \cup
    [fn : {"confidence"}, root_cause_analysis : ConfidenceEntries,
     contributing_factors : ConfidenceEntries]

InitExplain ==
    /\ environ = BareEnviron
    /\ infra = BareInfra
    /\ config = NoConfig
    /\ returned = NoConfig
    /\ probesRun = 0
    /\ calls = 0
    /\ changes = 0
    /\ PROM_URL = Undefined
    /\ GRAFANA_URL = Undefined
    /\ riskArgs = NoArgs
    /\ riskResult = NoResult
    /\ healthIn = NoHealthIn
    /\ health_analysis = NoAnalysis
    /\ hpc = "idle"
    /\ simLoop = NoSimLoop
    /\ aggIn = NoArgs
    /\ aggOut = NoResult
    /\ driverIn = NoDriverIn
    /\ proc = <<>>
    /\ run = <<>>
    /\ toolIn \in ExplainInputs
    /\ toolOut = NoResult

ExplainFailureWithContext ==
    /\ toolIn.fn = "explain"
    /\ ~toolOut.done
    /\ toolOut' = Result(explain_failure_with_context(toolIn))
    /\ UNCHANGED <<detVars, urlVars, riskVars, healthVars, aggVars, driverVars, toolIn>>

CalculateExplanationConfidence ==
    /\ toolIn.fn = "confidence"
    /\ ~toolOut.done
    /\ toolOut' = Result(_calculate_explanation_confidence(
                             [NewExplanation EXCEPT
                                 !.root_cause_analysis = toolIn.root_cause_analysis,
                                 !.contributing_factors = toolIn.contributing_factors]))
    /\ UNCHANGED <<detVars, urlVars, riskVars, healthVars, aggVars, driverVars, toolIn>>

NextExplain == ExplainFailureWithContext \/ CalculateExplanationConfidence

SpecExplain == InitExplain /\ [][NextExplain]_vars

(***************************************************************************)
(* What the specification says each probe looks for, and the profile kind  *)
(* it stands for                                                           *)
(***************************************************************************)
ProbeOrder ==
    <<"ci", "aws", "gcp", "azure", "local_cluster", "container_desktop", "simulation_flag">>

ProbeKind(p) ==
    CASE p = "ci"                -> "github_actions"
      [] p = "aws"               -> "aws_eks"
      [] p = "gcp"               -> "google_gke"
      [] p = "azure"             -> "azure_aks"
      [] p = "local_cluster"     -> "local_k8s"
      [] p = "container_desktop" -> "docker_desktop"
      [] p = "simulation_flag"   -> "simulation"

ProbeFunction(p) ==
    CASE p = "ci"                -> "_detect_github_actions"
      [] p = "aws"               -> "_detect_aws_eks"
      [] p = "gcp"               -> "_detect_google_gke"
      [] p = "azure"             -> "_detect_azure_aks"
      [] p = "local_cluster"     -> "_detect_local_kubernetes"
      [] p = "container_desktop" -> "_detect_docker_desktop"
      [] p = "simulation_flag"   -> "_detect_simulation_mode"

\* the probe finds what it looks for; an external call that raised found nothing
ProbeFinds(p, env, inf) ==
    CASE p = "ci"    -> env.GITHUB_ACTIONS \notin {None, ""}
      [] p = "aws"   -> /\ (env.AWS_ACCESS_KEY_ID \notin {None, ""} \/ env.AWS_ROLE_ARN \notin {None, ""})
                        /\ inf.node_provider = "aws"
      [] p = "gcp"   -> env.GOOGLE_APPLICATION_CREDENTIALS \notin {None, ""} \/ inf.gke_metadata = "200"
      [] p = "azure" -> env.AZURE_CLIENT_ID \notin {None, ""} \/ inf.node_provider = "azure"
      [] p = "local_cluster"     -> inf.kubectl_version = "rc0" /\ inf.cluster_info = "local"
      [] p = "container_desktop" -> inf.docker_info = "desktop"
      [] p = "simulation_flag"   -> env.AI_OBSERVABILITY_SIMULATION \in {"true", "TRUE", "True"}

\* the probe neither raised nor failed to match
ProbeSucceeds(p, env, inf) ==
    ProbeFinds(p, env, inf) /\ ProbeFunction(p) \notin inf.unexpected

\* the kind of the first probe in priority order that succeeds, "unknown" when none does
FirstSuccessKind(env, inf) ==
    IF \E i \in 1..Len(ProbeOrder) : ProbeSucceeds(ProbeOrder[i], env, inf)
    THEN LET i == CHOOSE k \in 1..Len(ProbeOrder) :
                      /\ ProbeSucceeds(ProbeOrder[k], env, inf)
                      /\ \A j \in 1..(k - 1) : ~ProbeSucceeds(ProbeOrder[j], env, inf)
         IN  ProbeKind(ProbeOrder[i])
    ELSE "unknown"

CloudKinds == {"aws_eks", "google_gke", "azure_aks"}

(***************************************************************************)
(* C1: detect_environment returns the profile of the first probe that      *)
(* matches in the order CI marker, AWS, GCP, Azure, local cluster,         *)
(* container-runtime desktop, simulation flag, and UNKNOWN when none       *)
(* matches; whenever the CI marker is present the kind is GITHUB_ACTIONS,  *)
(* never a cloud kind, whatever credentials, cluster reachability or       *)
(* simulation flag are also present.                                       *)
(***************************************************************************)
C1_FirstMatchingProbeWins ==
    calls > 0 =>
        /\ returned = config
        /\ config.env_type = FirstSuccessKind(environ, infra)
        /\ (environ.GITHUB_ACTIONS \notin {None, ""} =>
               config.env_type = "github_actions" /\ config.env_type \notin CloudKinds)

\* the CI marker together with every cloud credential, an in-cluster answer,
\* a reachable cluster and the simulation flag
C1_Witness ==
    /\ calls > 0
    /\ environ.GITHUB_ACTIONS = "true"
    /\ environ.AWS_ACCESS_KEY_ID # None /\ infra.node_provider = "aws"
    /\ environ.GOOGLE_APPLICATION_CREDENTIALS # None
    /\ environ.AZURE_CLIENT_ID # None
    /\ infra.kubectl_version = "rc0"
    /\ environ.AI_OBSERVABILITY_SIMULATION = "TRUE"
    /\ config.env_type = "github_actions"

(***************************************************************************)
(* C7: probes fail soft.  For any subset of probes that raise or time out  *)
(* detect_environment still returns a profile and never raises; the result *)
(* is the profile of the first probe in priority order that neither raised *)
(* nor failed to match, or UNKNOWN when there is none.                     *)
(***************************************************************************)
C7_ProbesFailSoft ==
    calls > 0 =>
        /\ returned # Raised
        /\ returned # NoConfig
        /\ returned.env_type = FirstSuccessKind(environ, infra)

\* a probe that would have matched raised, two external calls raised as well,
\* and a later probe's profile was returned
C7_Witness ==
    /\ calls > 0
    /\ infra.unexpected = {"_detect_github_actions"}
    /\ environ.GITHUB_ACTIONS = "true"
    /\ infra.node_provider = "raise"
    /\ infra.gke_metadata = "raise"
    /\ infra.docker_info = "desktop"
    /\ returned.env_type = "docker_desktop"

(***************************************************************************)
(* C6: after the first detect_environment call on a detector has returned  *)
(* a profile (UNKNOWN included), every later call returns that same        *)
(* profile and runs no probe, whatever changes are made to environment     *)
(* variables or infrastructure in between (the agent setting the           *)
(* simulation flag after detection included).                              *)
(***************************************************************************)
C6_DetectionCached ==
    [][config # NoConfig =>
          /\ config' = config
          /\ probesRun' = probesRun
          /\ (calls' # calls => returned' = config)]_vars

\* a second call was answered although the pipeline would now choose another profile
C6_Witness ==
    /\ calls >= 2
    /\ changes > 0
    /\ returned = config
    /\ DetectorLoop(1, environ, infra).config # config

\* the same, after an UNKNOWN profile and the agent's own simulation fallback
C6_WitnessUnknown ==
    /\ calls >= 2
    /\ config.env_type = "unknown"
    /\ environ.AI_OBSERVABILITY_SIMULATION = "true"

(***************************************************************************)
(* C5: for every profile kind, when an explicit non-empty override is      *)
(* configured for the metrics (PROM_URL) or dashboard (GRAFANA_URL)        *)
(* endpoint, the resolved endpoint equals that override; a profile-derived *)
(* or mock value is used only when the override is empty.                  *)
(***************************************************************************)
C5_OverrideWins ==
    PROM_URL # Undefined =>
        /\ (environ.PROM_URL \notin {None, ""} => PROM_URL = environ.PROM_URL)
        /\ (environ.GRAFANA_URL \notin {None, ""} => GRAFANA_URL = environ.GRAFANA_URL)

\* the same statement for the kinds other than SIMULATION, where the code keeps it
C5_OverrideWinsOutsideSimulation ==
    (PROM_URL # Undefined /\ config.env_type # "simulation") =>
        /\ (environ.PROM_URL \notin {None, ""} => PROM_URL = environ.PROM_URL)
        /\ (environ.GRAFANA_URL \notin {None, ""} => GRAFANA_URL = environ.GRAFANA_URL)

(***************************************************************************)
(* C8: for every restart count r >= 0, every phase and every list of       *)
(* container statuses, the risk score computed by _calculate_ai_risk_score *)
(* lies in [0,100], extreme inputs (r = 1000, many not-ready containers)   *)
(* included.                                                               *)
(***************************************************************************)
C8_RiskScoreBounded ==
    riskResult.done => (riskResult.value >= 0 /\ riskResult.value <= 100)

\* 1000 restarts, a pod that is not Running and three containers that are
\* neither ready nor out of their crash loop: the terms add up to far more than 100
C8_Witness ==
    /\ riskResult.done
    /\ riskArgs.restarts = 1000
    /\ PhaseOf(riskArgs.pod_status) # "Running"
    /\ Len(riskArgs.pod_status.containerStatuses) = 3
    /\ \A i \in 1..3 : /\ ~riskArgs.pod_status.containerStatuses[i].ready
                       /\ riskArgs.pod_status.containerStatuses[i].waiting = "CrashLoopBackOff"
    /\ RawRiskScore(riskArgs.pod_status, riskArgs.restarts) = 250
    /\ riskResult.value = 100

(***************************************************************************)
(* C9: the health score of every snapshot returned by                      *)
(* analyze_system_health lies in [0,100], on the cluster path, the         *)
(* no-cluster path, the simulated path, and when collection raised an      *)
(* exception.                                                              *)
(***************************************************************************)
C9_HealthScoreBounded ==
    hpc = "returned" =>
        /\ health_analysis.health_score.den > 0
        /\ FracAtLeast(health_analysis.health_score, 0)
        /\ FracAtMost(health_analysis.health_score, 100)

\* a cluster listing with no ready pod: the risk penalty would take the score
\* below zero, and the returned score is 0
C9_Witness ==
    /\ hpc = "returned"
    /\ HealthPath(config) = "cluster"
    /\ healthIn.pods_cmd = "ok"
    /\ Len(healthIn.items) = 3
    /\ health_analysis.error = None
    /\ ReadyCount(health_analysis.pods) = 0
    /\ OverallHealthScore_unclamped(0, 3, health_analysis.pods).num < 0
    /\ health_analysis.health_score.num = 0

\* the other paths a returned snapshot comes from
C9_WitnessSimulated ==
    hpc = "returned" /\ HealthPath(config) = "simulation" /\ health_analysis.health_score = Frac(33, 1)

C9_WitnessExternal ==
    hpc = "returned" /\ HealthPath(config) = "external" /\ healthIn.up_count = 6
    /\ health_analysis.health_score = Frac(100, 1)

C9_WitnessException ==
    hpc = "returned" /\ health_analysis.error # None /\ DOMAIN health_analysis.pods # {}

(***************************************************************************)
(* C10: on the cluster path the aggregate health score is monotonic        *)
(* non-increasing in per-unit risk: for two unit sets with the same number *)
(* of units and the same number of ready units, if every unit's risk score *)
(* in the second is at least its risk score in the first, the second       *)
(* aggregate score is not greater than the first.                          *)
(***************************************************************************)
C10_ScoreMonotonicInRisk ==
    (/\ aggOut.done
     /\ Len(aggIn.a) = Len(aggIn.b)
     /\ ReadyCount(UnitDict(aggIn.a)) = ReadyCount(UnitDict(aggIn.b))
     /\ \A i \in 1..Len(aggIn.a) : aggIn.b[i].ai_risk_score >= aggIn.a[i].ai_risk_score)
    => FracLeq(aggOut.value.b, aggOut.value.a)

\* two units, one ready in each set, a risk raised from 0 to 100: the score drops
C10_Witness ==
    /\ aggOut.done
    /\ Len(aggIn.a) = 2 /\ Len(aggIn.b) = 2
    /\ ReadyCount(UnitDict(aggIn.a)) = 1 /\ ReadyCount(UnitDict(aggIn.b)) = 1
    /\ \A i \in 1..2 : aggIn.b[i].ai_risk_score >= aggIn.a[i].ai_risk_score
    /\ \E i \in 1..2 : aggIn.b[i].ai_risk_score > aggIn.a[i].ai_risk_score
    /\ ~FracLeq(aggOut.value.a, aggOut.value.b)

(***************************************************************************)
(* C2: when the driver run completes without an internal error, the        *)
(* process exit code is 1 exactly when blocking mode is enabled and (some  *)
(* unit of the health snapshot is critical, i.e. not ready or with risk    *)
(* score above 80, or the health score is below 70); otherwise it is 0.    *)
(***************************************************************************)
HasCriticalUnit(a) ==
    \E n \in DOMAIN a.pods : ~a.pods[n].ready \/ a.pods[n].ai_risk_score > 80

ShouldBlock(blocking, a) ==
    blocking /\ (HasCriticalUnit(a) \/ FracLess(a.health_score, 70))

C2_ExitCodeRule ==
    \A r \in DOMAIN run :
        (run[r].pc = "exited" /\ ~run[r].raised)
        => run[r].status = (IF ShouldBlock(run[r].blocking_mode, run[r].health_analysis)
                            THEN 1 ELSE 0)

\* C2 restricted to runs that have the narrative collaborator: there the rule holds
C2_ExitCodeRuleWithAgent ==
    \A r \in DOMAIN run :
        (run[r].pc = "exited" /\ ~run[r].raised /\ proc[r].agent # None)
        => run[r].status = (IF ShouldBlock(run[r].blocking_mode, run[r].health_analysis)
                            THEN 1 ELSE 0)

C2_WitnessWithAgent ==
    \E r \in DOMAIN run :
        /\ run[r].pc = "exited" /\ ~run[r].raised /\ proc[r].agent # None
        /\ run[r].status = 1
        /\ ~HasCriticalUnit(run[r].health_analysis)

\* the run the rule fails on: blocking mode, a unit that is not ready, no agent, status 0
C2_Failing ==
    \E r \in DOMAIN run :
        /\ run[r].pc = "exited" /\ ~run[r].raised
        /\ proc[r].agent = None
        /\ run[r].blocking_mode = TRUE
        /\ HasCriticalUnit(run[r].health_analysis)
        /\ run[r].status = 0

(***************************************************************************)
(* C3: two runs with the same snapshot and the same blocking flag end with *)
(* the same exit code whether the narrative collaborator is present, is    *)
(* absent (agent is None or the simulation flag is set), or returns any    *)
(* text.                                                                   *)
(***************************************************************************)
C3_ExitCodeIgnoresCollaborator ==
    \A r1, r2 \in DOMAIN run :
        (/\ run[r1].pc = "exited" /\ ~run[r1].raised
         /\ run[r2].pc = "exited" /\ ~run[r2].raised
         /\ run[r1].health_analysis = run[r2].health_analysis
         /\ run[r1].blocking_mode = run[r2].blocking_mode)
        => run[r1].status = run[r2].status

\* among runs that have the collaborator, the text it returns does not matter
C3_ExitCodeIgnoresNarrativeText ==
    \A r1, r2 \in DOMAIN run :
        (/\ run[r1].pc = "exited" /\ ~run[r1].raised /\ proc[r1].agent # None
         /\ run[r2].pc = "exited" /\ ~run[r2].raised /\ proc[r2].agent # None
         /\ run[r1].health_analysis = run[r2].health_analysis
         /\ run[r1].blocking_mode = run[r2].blocking_mode)
        => run[r1].status = run[r2].status

C3_WitnessNarrativeText ==
    /\ DOMAIN run = {"one", "other"}
    /\ run["one"].pc = "exited" /\ run["other"].pc = "exited"
    /\ proc["one"].agent # None /\ proc["other"].agent # None
    /\ run["one"].result = "DEPLOYMENT BLOCKED" /\ run["other"].result = "DEPLOYMENT APPROVED"
    /\ run["one"].status = 1 /\ run["other"].status = 1

(***************************************************************************)
(* C4: if an exception is raised inside the driver's analysis or narrative *)
(* step, the process exits with code 2, never 0 or 1, whether the          *)
(* best-effort critical notification succeeds, fails, or is not attempted. *)
(***************************************************************************)
C4_ErrorExitsWithTwo ==
    \A r \in DOMAIN run :
        (run[r].pc = "exited" /\ run[r].raised) => run[r].status = 2

\* the notification itself failed, on a snapshot that would otherwise block
C4_Witness ==
    \E r \in DOMAIN run :
        /\ run[r].pc = "exited" /\ run[r].raised
        /\ run[r].notification = "raised"
        /\ run[r].blocking_mode = TRUE /\ run[r].critical_issues > 0
        /\ run[r].status = 2

C4_WitnessSent ==
    \E r \in DOMAIN run :
        run[r].pc = "exited" /\ run[r].raised /\ run[r].notification = "sent" /\ run[r].status = 2

C4_WitnessNotAttempted ==
    \E r \in DOMAIN run :
        /\ run[r].pc = "exited" /\ run[r].raised /\ run[r].notification = "not_attempted"
        /\ run[r].status = 2

(***************************************************************************)
(* C11: the trend predictor returns no prediction, and raises no error,    *)
(* for every series of fewer than 3 samples (the empty series included)    *)
(* and for every series whose absolute percent change of the recent        *)
(* average against the older average is at most 20.                        *)
(***************************************************************************)
\* the averages the sentence speaks of, times their number of samples
RecentSum(values) == SumSeq(SubSeq(values, Len(values) - 2, Len(values)))
OlderSum(values) == SumSeq(SubSeq(values, 1, Len(values) - 3))

\* |(recent - older) / older * 100| <= 20, with recent = RecentSum/3 and
\* older = OlderSum/(n-3) (older = recent for a series of exactly 3 samples)
ChangeAtMostTwenty(values) ==
    \/ Len(values) = 3
    \/ /\ Len(values) > 3
       /\ OlderSum(values) # 0
       /\ LET m == Len(values) - 3
          IN  Abs(RecentSum(values) * m - 3 * OlderSum(values)) * 100
                  <= 20 * 3 * Abs(OlderSum(values))

C11_NoPredictionBelowThreshold ==
    (/\ toolIn.fn = "predict_trend"
     /\ toolOut.done
     /\ (Len(toolIn.values) < 3 \/ ChangeAtMostTwenty(toolIn.values)))
    => /\ ~toolOut.value.direct.raised
       /\ toolOut.value.direct.value = NoPrediction
       /\ toolOut.value.caller = [error |-> None, predictions |-> <<>>]

\* a series of four samples whose recent average is exactly 20 percent above the older one
C11_Witness ==
    /\ toolIn.fn = "predict_trend"
    /\ toolOut.done
    /\ toolIn.values = <<5, 6, 6, 6>>
    /\ toolOut.value.direct.value = NoPrediction

C11_WitnessEmpty ==
    toolIn.fn = "predict_trend" /\ toolOut.done /\ toolIn.values = <<>>
    /\ toolOut.value.direct.value = NoPrediction

C11_WitnessPrediction ==
    toolIn.fn = "predict_trend" /\ toolOut.done /\ toolIn.values = <<4, 5, 5, 5>>
    /\ toolOut.value.direct.value # NoPrediction

(***************************************************************************)
(* C12: in simulated mode every unit, every insight and every prediction   *)
(* of the returned snapshot carries a marker identifying it as synthetic.  *)
(***************************************************************************)
\* the fields a marker could sit in and the values that would say "synthetic"
MarkerFields == {"type", "source", "message"}

MarkerFlags == {"simulated", "synthetic", "simulation"}

MarkerValues ==
    {"simulation_mode", "simulation_engine", "simulation", "simulated", "synthetic",
     "Running in simulation mode - data is generated",
     "Environment auto-detected as simulation"}

CarriesSyntheticMarker(rec) ==
    \/ \E f \in DOMAIN rec \cap MarkerFields : rec[f] \in MarkerValues
    \/ \E f \in DOMAIN rec \cap MarkerFlags : rec[f] = TRUE

AllMarked(records) == \A i \in 1..Len(records) : CarriesSyntheticMarker(records[i])

C12_SimulatedRecordsMarked ==
    (hpc = "returned" /\ HealthPath(config) = "simulation")
    => /\ \A n \in DOMAIN health_analysis.pods : CarriesSyntheticMarker(health_analysis.pods[n])
       /\ AllMarked(health_analysis.ai_insights)
       /\ AllMarked(health_analysis.predictions)

\* what does hold: the snapshot as a whole is labelled, by its first insight and
\* by its traceability record
C12_SimulatedSnapshotMarked ==
    (hpc = "returned" /\ HealthPath(config) = "simulation")
    => /\ \E i \in 1..Len(health_analysis.ai_insights) :
              health_analysis.ai_insights[i].type = "simulation_mode"
       /\ AllMarked(health_analysis.ai_insights)
       /\ AllMarked(health_analysis.traceability)

C12_WitnessSnapshotMarked ==
    /\ hpc = "returned" /\ HealthPath(config) = "simulation"
    /\ DOMAIN health_analysis.pods # {}
    /\ health_analysis.predictions # <<>>

(***************************************************************************)
(* C13: in simulated mode the number of units in the returned snapshot is  *)
(* always between 3 and 8 inclusive, for every outcome of the random       *)
(* choices (generated unit names that coincide included), and the score is *)
(* computed over exactly those units.                                      *)
(***************************************************************************)
C13_SimulatedUnitCount ==
    (hpc = "returned" /\ HealthPath(config) = "simulation")
    => LET units == Cardinality(DOMAIN health_analysis.pods)
       IN  /\ units >= 3
           /\ units <= 8
           /\ health_analysis.health_score
                  = Frac((ReadyCount(health_analysis.pods) * 100) \div units, 1)

\* what does hold: between 1 and num_pods units, and a score that divides the
\* ready units by the number of draws
C13_SimulatedUnitCountAtMostDraws ==
    (hpc = "returned" /\ HealthPath(config) = "simulation")
    => LET units == Cardinality(DOMAIN health_analysis.pods)
       IN  /\ units >= 1
           /\ units <= simLoop.num_pods
           /\ simLoop.num_pods >= 3 /\ simLoop.num_pods <= 8
           /\ health_analysis.health_score
                  = Frac((ReadyCount(health_analysis.pods) * 100) \div simLoop.num_pods, 1)

\* three draws of the same name: one ready unit, reported with score 33
C13_WitnessCollision ==
    /\ hpc = "returned" /\ HealthPath(config) = "simulation"
    /\ simLoop.num_pods = 3
    /\ Cardinality(DOMAIN health_analysis.pods) = 1
    /\ ReadyCount(health_analysis.pods) = 1
    /\ health_analysis.health_score = Frac(33, 1)

(***************************************************************************)
(* C18: in correlate_events_and_metrics the failure of one external query  *)
(* only skips that source: if the event query fails (command error,        *)
(* timeout, unparsable output or an event timestamp that cannot be         *)
(* compared) the metric queries are still issued and the correlation       *)
(* analysis still runs on the data that was obtained, and the failure of   *)
(* one metric query does not prevent the others.                           *)
(***************************************************************************)
\* the metrics whose query was answered with a value
AnsweredMetrics(inp) ==
    {MetricNames[k] : k \in {j \in 1..Len(MetricNames) :
                                 inp.metrics[MetricNames[j]].outcome = "value"}}

C18_QueryFailuresIsolated ==
    (toolIn.fn = "correlate" /\ toolOut.done)
    => /\ toolOut.value.metric_queries = Len(MetricNames)
       /\ DOMAIN toolOut.value.current_metrics = AnsweredMetrics(toolIn)
       /\ toolOut.value.analysed

\* what does hold: a non-zero exit of the event command and failing metric
\* queries are each skipped on their own
C18_NonRaisingFailuresIsolated ==
    (/\ toolIn.fn = "correlate" /\ toolOut.done
     /\ toolIn.events_cmd \in {"ok", "rc1"}
     /\ \A k \in 1..Len(toolIn.events) :
            toolIn.events[k].lastTimestamp \in {"naive_recent", "naive_old"})
    => /\ toolOut.value.metric_queries = Len(MetricNames)
       /\ DOMAIN toolOut.value.current_metrics = AnsweredMetrics(toolIn)
       /\ toolOut.value.analysed
       /\ toolOut.value.error = None

C18_WitnessMetricFailure ==
    /\ toolIn.fn = "correlate" /\ toolOut.done
    /\ toolIn.events_cmd = "rc1"
    /\ toolIn.metrics.error_rate.outcome = "raise"
    /\ DOMAIN toolOut.value.current_metrics = {"latency_p95", "cpu_usage", "memory_usage"}

\* the failing run: one event with a "Z" timestamp, every metric query would answer
C18_Failing ==
    /\ toolIn.fn = "correlate" /\ toolOut.done
    /\ toolIn.events_cmd = "ok" /\ Len(toolIn.events) = 1
    /\ toolIn.events[1].lastTimestamp = "aware_recent"
    /\ AnsweredMetrics(toolIn) = {"error_rate", "latency_p95", "cpu_usage", "memory_usage"}
    /\ toolOut.value.metric_queries = 0
    /\ toolOut.value.error # None

(***************************************************************************)
(* C14: when the notification token or the destination id is absent        *)
(* (either one empty), send_cicd_notification returns a 'not configured'   *)
(* result and makes no network call; when both are present and the network *)
(* call fails, it returns a failure result and does not raise.             *)
(***************************************************************************)
C14_NotifierFailsSoft ==
    (toolIn.fn = "notify" /\ toolOut.done)
    => /\ (toolIn.TELEGRAM_BOT_TOKEN = "" \/ toolIn.TELEGRAM_CHAT_ID = "")
            => /\ toolOut.value.result = "not_configured"
               /\ toolOut.value.network_calls = 0
               /\ ~toolOut.value.raised
       /\ (toolIn.TELEGRAM_BOT_TOKEN # "" /\ toolIn.TELEGRAM_CHAT_ID # "" /\ toolIn.post # "ok")
            => /\ toolOut.value.result = "failed"
               /\ ~toolOut.value.raised

\* both credentials present, the POST times out
C14_Witness ==
    /\ toolIn.fn = "notify" /\ toolOut.done
    /\ toolIn.TELEGRAM_BOT_TOKEN = "token" /\ toolIn.TELEGRAM_CHAT_ID = "chat"
    /\ toolIn.post = "timeout"
    /\ toolOut.value.result = "failed"
    /\ toolOut.value.network_calls = 1

\* a token without a destination id
C14_WitnessNotConfigured ==
    /\ toolIn.fn = "notify" /\ toolOut.done
    /\ toolIn.TELEGRAM_BOT_TOKEN = "token" /\ toolIn.TELEGRAM_CHAT_ID = ""
    /\ toolOut.value.result = "not_configured"
    /\ toolOut.value.network_calls = 0

(***************************************************************************)
(* C15: if any exception is raised while analyze_system_health collects    *)
(* data, the call does not raise: it returns the snapshot with the units   *)
(* gathered so far, an error field, and a 'system_error' insight of        *)
(* confidence 1.0.                                                         *)
(***************************************************************************)
\* the unit listing raised: kubectl could not be run or timed out, its output
\* was not JSON, or a listed item could not be read
ListingRaised(inp) ==
    \/ inp.pods_cmd \in {"raise", "badjson"}
    \/ inp.pods_cmd = "ok" /\ \E i \in 1..Len(inp.items) : inp.items[i].malformed

\* a metric query raised (after a listing that did not)
MetricQueryRaised(inp, prom_url) ==
    /\ inp.pods_cmd \in {"ok", "rc1"}
    /\ \A i \in 1..Len(inp.items) : ~inp.items[i].malformed
    /\ PromAnswer(prom_url, inp.error_rate) = "raise"

\* the items read before the first one that could not be
ReadBeforeFailure(inp) ==
    {i \in 1..Len(inp.items) : \A j \in 1..i : ~inp.items[j].malformed}

HasSystemError(a) ==
    /\ a.error # None
    /\ \E i \in 1..Len(a.ai_insights) :
           a.ai_insights[i].type = "system_error" /\ a.ai_insights[i].confidence = 100

HasUnitsGatheredSoFar(a, inp) ==
    /\ DOMAIN a.pods = {inp.items[i].name : i \in ReadBeforeFailure(inp)}
    /\ \A i \in ReadBeforeFailure(inp) : a.pods[inp.items[i].name] = PodHealth(inp.items[i])

\* the sentence as written: any exception during collection
C15_AnyCollectionErrorRecorded ==
    (/\ hpc = "returned" /\ HealthPath(config) = "cluster"
     /\ (ListingRaised(healthIn) \/ MetricQueryRaised(healthIn, PROM_URL)))
    => HasSystemError(health_analysis)

\* amended: an exception raised by the unit listing is recorded, and the units
\* read before it are kept
C15_ListingErrorRecorded ==
    (hpc = "returned" /\ HealthPath(config) = "cluster" /\ ListingRaised(healthIn))
    => /\ HasSystemError(health_analysis)
       /\ HasUnitsGatheredSoFar(health_analysis, healthIn)

\* two pods read, the third cannot be: both are in the snapshot, with the error
C15_Witness ==
    /\ hpc = "returned" /\ HealthPath(config) = "cluster"
    /\ healthIn.pods_cmd = "ok" /\ Len(healthIn.items) = 3
    /\ ~healthIn.items[1].malformed /\ ~healthIn.items[2].malformed
    /\ healthIn.items[3].malformed
    /\ DOMAIN health_analysis.pods = {"pod-1", "pod-2"}
    /\ HasSystemError(health_analysis)

\* a metric query that raised leaves no trace in the snapshot
C15_WitnessSilentMetricFailure ==
    /\ hpc = "returned" /\ HealthPath(config) = "cluster"
    /\ MetricQueryRaised(healthIn, PROM_URL)
    /\ healthIn.pods_cmd = "ok" /\ Len(healthIn.items) > 0
    /\ health_analysis.error = None
    /\ health_analysis.correlations = <<>>

(***************************************************************************)
(* C16: degraded data is always labelled: whenever analyze_system_health   *)
(* returns a snapshot that is not based on a successful unit listing (the  *)
(* listing command ended with a non-zero exit, the no-cluster path fell    *)
(* back to a fixed estimate, or the data is simulated), the snapshot       *)
(* carries an insight or an error field that records the gap, so a score   *)
(* produced without real unit data is never reported unlabelled.           *)
(***************************************************************************)
\* the three cases the sentence names
NotBasedOnUnitListing ==
    \/ HealthPath(config) = "cluster" /\ healthIn.pods_cmd = "rc1"
    \/ HealthPath(config) = "external"
    \/ HealthPath(config) = "simulation"

\* an insight that records where the data comes from or that it is missing
GapInsightTypes ==
    {"system_error", "limited_visibility", "external_monitoring", "simulation_mode"}

RecordsTheGap(a) ==
    \/ a.error # None
    \/ \E i \in 1..Len(a.ai_insights) : a.ai_insights[i].type \in GapInsightTypes

C16_DegradedDataLabelled ==
    (hpc = "returned" /\ NotBasedOnUnitListing) => RecordsTheGap(health_analysis)

\* what does hold: the no-cluster and the simulated snapshots are labelled
C16_ExternalAndSimulatedLabelled ==
    (hpc = "returned" /\ HealthPath(config) \in {"external", "simulation"})
    => RecordsTheGap(health_analysis)

C16_WitnessFixedEstimate ==
    /\ hpc = "returned" /\ HealthPath(config) = "external"
    /\ health_analysis.health_score = Frac(75, 1)
    /\ \E i \in 1..Len(health_analysis.ai_insights) :
           health_analysis.ai_insights[i].type = "limited_visibility"

\* the failing run: kubectl get pods exits non-zero, the snapshot says 100 and nothing else
C16_Failing ==
    /\ hpc = "returned" /\ HealthPath(config) = "cluster" /\ healthIn.pods_cmd = "rc1"
    /\ health_analysis.health_score = Frac(100, 1)
    /\ health_analysis.ai_insights = <<>>
    /\ health_analysis.error = None
    /\ DOMAIN health_analysis.pods = {}

(***************************************************************************)
(* C17: an UNKNOWN profile is treated identically to a SIMULATED profile   *)
(* downstream: with the same configuration, endpoint resolution and        *)
(* analyze_system_health take the same branch and produce the same kind of *)
(* result (mock endpoints, labelled synthetic snapshot) for UNKNOWN as for *)
(* SIMULATED.                                                              *)
(***************************************************************************)
\* what the same configuration gives under a SIMULATION profile
SimulatedPromURL ==
    ResolveEndpoint(environ.PROM_URL, _get_simulation_endpoints.prometheus,
                    "simulation", MockPromURL)

SimulatedGrafanaURL ==
    ResolveEndpoint(environ.GRAFANA_URL, _get_simulation_endpoints.grafana,
                    "simulation", MockGrafanaURL)

IsSyntheticSnapshot(a) ==
    \E i \in 1..Len(a.ai_insights) : a.ai_insights[i].type = "simulation_mode"

C17_UnknownTreatedAsSimulated ==
    (hpc = "returned" /\ config.env_type = "unknown")
    => /\ PROM_URL = SimulatedPromURL
       /\ GRAFANA_URL = SimulatedGrafanaURL
       /\ HealthPath(config) = "simulation"
       /\ IsSyntheticSnapshot(health_analysis)

\* the SIMULATION side of the comparison does behave as the sentence says
C17_SimulatedGetsMockAndSynthetic ==
    (hpc = "returned" /\ config.env_type = "simulation")
    => /\ PROM_URL = MockPromURL
       /\ GRAFANA_URL = MockGrafanaURL
       /\ IsSyntheticSnapshot(health_analysis)

C17_WitnessSimulated ==
    /\ hpc = "returned" /\ config.env_type = "simulation"
    /\ PROM_URL = MockPromURL
    /\ IsSyntheticSnapshot(health_analysis)

\* the failing run: UNKNOWN, no endpoint resolved, the fixed estimate of the
\* no-cluster branch and no synthetic label
C17_Failing ==
    /\ hpc = "returned" /\ config.env_type = "unknown"
    /\ PROM_URL = ""
    /\ HealthPath(config) = "external"
    /\ health_analysis.health_score = Frac(75, 1)
    /\ ~IsSyntheticSnapshot(health_analysis)

(***************************************************************************)
(* C19: a CLOUD_K8S profile for a provider (aws, gcp, azure) is produced   *)
(* only when both that provider's credential variable is present and the   *)
(* 'running inside this provider's cluster' check succeeds; when the       *)
(* credential is present but the in-cluster check fails, that provider's   *)
(* probe does not match and detection continues with the next probe.       *)
(***************************************************************************)
CredentialPresent(kind, env) ==
    CASE kind = "aws_eks"    -> env.AWS_ACCESS_KEY_ID \notin {None, ""}
                                \/ env.AWS_ROLE_ARN \notin {None, ""}
      [] kind = "google_gke" -> env.GOOGLE_APPLICATION_CREDENTIALS \notin {None, ""}
      [] kind = "azure_aks"  -> env.AZURE_CLIENT_ID \notin {None, ""}

InClusterCheckSucceeds(kind, inf) ==
    CASE kind = "aws_eks"    -> inf.node_provider = "aws"
      [] kind = "google_gke" -> inf.gke_metadata = "200"
      [] kind = "azure_aks"  -> inf.node_provider = "azure"

C19_CloudNeedsCredentialAndCluster ==
    (calls > 0 /\ config.env_type \in CloudKinds)
    => /\ CredentialPresent(config.env_type, environ)
       /\ InClusterCheckSucceeds(config.env_type, infra)

\* what does hold: the AWS probe needs both, the other two need either
C19_AwsNeedsBothOthersEither ==
    (calls > 0 /\ config.env_type \in CloudKinds)
    => IF config.env_type = "aws_eks"
       THEN /\ CredentialPresent(config.env_type, environ)
            /\ InClusterCheckSucceeds(config.env_type, infra)
       ELSE \/ CredentialPresent(config.env_type, environ)
            \/ InClusterCheckSucceeds(config.env_type, infra)

C19_WitnessAws ==
    /\ calls > 0 /\ config.env_type = "google_gke"
    /\ CredentialPresent("aws_eks", environ) /\ ~InClusterCheckSucceeds("aws_eks", infra)
    /\ InClusterCheckSucceeds("google_gke", infra)

\* the failing run: a GCP credential file, no metadata server
C19_Failing ==
    /\ calls > 0 /\ config.env_type = "google_gke"
    /\ CredentialPresent("google_gke", environ)
    /\ infra.gke_metadata = "404"

(***************************************************************************)
(* C20: in every profile produced by detection, cluster_reachable          *)
(* (kubernetes_available) is true only if the cluster API was reachable    *)
(* during detection; for a CI_PLATFORM profile the capabilities            *)
(* real_time_monitoring and chaos_simulation are enabled exactly when the  *)
(* cluster is reachable.                                                   *)
(***************************************************************************)
\* a kubectl call made during detection succeeded: the access check, or the
\* node listing of the in-cluster checks
ClusterReachedDuringDetection(inf) ==
    \/ inf.kubectl_version = "rc0"
    \/ inf.node_provider \in {"aws", "azure"}

C20_AvailableOnlyIfReached ==
    calls > 0 =>
        /\ config.kubernetes_available => ClusterReachedDuringDetection(infra)
        /\ config.env_type = "github_actions" =>
              /\ config.capabilities.real_time_monitoring = (infra.kubectl_version = "rc0")
              /\ config.capabilities.chaos_simulation = (infra.kubectl_version = "rc0")

\* what does hold: outside the GKE and AKS profiles the flag follows a kubectl call
C20_AvailableOnlyIfReachedExceptGkeAks ==
    (calls > 0 /\ config.env_type \notin {"google_gke", "azure_aks"}) =>
        /\ config.kubernetes_available => ClusterReachedDuringDetection(infra)
        /\ config.env_type = "github_actions" =>
              /\ config.kubernetes_available = (infra.kubectl_version = "rc0")
              /\ config.capabilities.real_time_monitoring = (infra.kubectl_version = "rc0")
              /\ config.capabilities.chaos_simulation = (infra.kubectl_version = "rc0")

C20_WitnessCi ==
    /\ calls > 0 /\ config.env_type = "github_actions"
    /\ infra.kubectl_version = "raise"
    /\ ~config.kubernetes_available
    /\ ~config.capabilities.real_time_monitoring /\ ~config.capabilities.chaos_simulation

\* the failing run: an Azure client id, every kubectl call failing
C20_Failing ==
    /\ calls > 0 /\ config.env_type = "azure_aks"
    /\ infra.kubectl_version = "rc1" /\ infra.node_provider = "nopath"
    /\ config.kubernetes_available

(***************************************************************************)
(* C21: for every unit, the risk score equals min(100, min(20 * restarts,  *)
(* 60) + (40 if the phase is not Running) + 20 for each not-ready          *)
(* container + (30 once if at least one container waits with reason        *)
(* CrashLoopBackOff or ImagePullBackOff)); several containers in such a    *)
(* waiting state contribute 30 in total, not 30 each.                      *)
(***************************************************************************)
BackOffReasons == {"CrashLoopBackOff", "ImagePullBackOff"}

NotReadyContainers(pod_status) ==
    {i \in DOMAIN pod_status.containerStatuses : ~pod_status.containerStatuses[i].ready}

BackOffContainers(pod_status) ==
    {i \in DOMAIN pod_status.containerStatuses :
        pod_status.containerStatuses[i].waiting \in BackOffReasons}

StatedRiskScore(pod_status, restarts) ==
    Min(100, Min(20 * restarts, 60)
             + (IF PhaseOf(pod_status) # "Running" THEN 40 ELSE 0)
             + 20 * Cardinality(NotReadyContainers(pod_status))
             + (IF BackOffContainers(pod_status) # {} THEN 30 ELSE 0))

C21_BackOffCountedOnce ==
    riskResult.done =>
        riskResult.value = StatedRiskScore(riskArgs.pod_status, riskArgs.restarts)

\* what does hold: the stated score whenever at most one container is in back-off
C21_StatedScoreWithOneBackOff ==
    (riskResult.done /\ Cardinality(BackOffContainers(riskArgs.pod_status)) <= 1) =>
        riskResult.value = StatedRiskScore(riskArgs.pod_status, riskArgs.restarts)

\* the failing run: a Running pod, no restarts, two containers in ImagePullBackOff
C21_Failing ==
    /\ riskResult.done
    /\ riskArgs.restarts = 0
    /\ PhaseOf(riskArgs.pod_status) = "Running"
    /\ Len(riskArgs.pod_status.containerStatuses) = 2
    /\ \A i \in 1..2 : /\ ~riskArgs.pod_status.containerStatuses[i].ready
                       /\ riskArgs.pod_status.containerStatuses[i].waiting = "ImagePullBackOff"
    /\ StatedRiskScore(riskArgs.pod_status, riskArgs.restarts) = 70
    /\ riskResult.value = 100

(***************************************************************************)
(* C22: on the cluster path with at least one unit listed, the snapshot's  *)
(* health score equals (ready_units / total_units) * 100 minus 0.3 times   *)
(* the mean of the units' risk scores, clamped to [0,100]; 3 units with 2  *)
(* ready and risk scores 0, 0, 40 give 188/3, about 62.7.                  *)
(***************************************************************************)
ListedReady(items) == Cardinality({i \in DOMAIN items : items[i].status.ready_condition = "True"})

ListedRisk(items, i) ==
    _calculate_ai_risk_score(items[i].status, SumRestarts(items[i].status.containerStatuses))

RECURSIVE ListedRiskSum(_, _)
ListedRiskSum(items, n) ==
    IF n = 0 THEN 0 ELSE ListedRisk(items, n) + ListedRiskSum(items, n - 1)

\* 10 * total * (ready / total * 100 - 0.3 * risk_sum / total), a whole number
StatedScoreTimesTenTotal(items) ==
    1000 * ListedReady(items) - 3 * ListedRiskSum(items, Len(items))

ListingAnalysed ==
    /\ hpc = "returned"
    /\ HealthPath(config) = "cluster"
    /\ healthIn.pods_cmd = "ok"
    /\ Len(healthIn.items) > 0
    /\ health_analysis.error = None

C22_ClusterScoreFormula ==
    ListingAnalysed =>
        LET total == Len(healthIn.items)
            stated == StatedScoreTimesTenTotal(healthIn.items)
            score == health_analysis.health_score
        IN  /\ score.den > 0
            /\ IF stated < 0 THEN score.num = 0
               ELSE IF stated > 1000 * total THEN score.num = 100 * score.den
               ELSE score.num * 10 * total = stated * score.den

\* two ready units of risk 0 and one unit that is not ready with risk 40
C22_Witness ==
    /\ ListingAnalysed
    /\ Len(healthIn.items) = 3
    /\ ListedReady(healthIn.items) = 2
    /\ {ListedRisk(healthIn.items, i) : i \in 1..3} = {0, 40}
    /\ ListedRiskSum(healthIn.items, 3) = 40
    /\ health_analysis.health_score.num * 3 = 188 * health_analysis.health_score.den

\* the lower clamp acts: no unit ready, the penalty alone would be negative
C22_WitnessClamped ==
    /\ ListingAnalysed
    /\ StatedScoreTimesTenTotal(healthIn.items) < 0
    /\ health_analysis.health_score.num = 0

(***************************************************************************)
(* C23: correlate_events_and_metrics returns a correlation record, with    *)
(* confidence exactly 0.9, whenever at least one Warning-type event with a *)
(* timestamp inside the last 5 minutes exists and the error-rate metric is *)
(* above 0.01, and returns no correlation record when either condition     *)
(* fails.                                                                  *)
(***************************************************************************)
RecentTimestamps == {"aware_recent", "naive_recent"}

RecentWarningExists(inp) ==
    \E k \in 1..Len(inp.events) :
        /\ inp.events[k].type = "Warning"
        /\ inp.events[k].lastTimestamp \in RecentTimestamps

ErrorRateAboveLimit(inp) ==
    /\ inp.metrics.error_rate.outcome = "value"
    /\ inp.metrics.error_rate.value > ErrorRateLimit

CorrelationRecords(c) ==
    {k \in 1..Len(c.correlations_found) :
        c.correlations_found[k].type = "event_metric_correlation"}

C23_CorrelationRule ==
    (toolIn.fn = "correlate" /\ toolOut.done) =>
        LET found == toolOut.value.correlations_found
        IN  IF RecentWarningExists(toolIn) /\ ErrorRateAboveLimit(toolIn)
            THEN /\ CorrelationRecords(toolOut.value) # {}
                 /\ \A k \in CorrelationRecords(toolOut.value) : found[k].confidence = 90
            ELSE found = <<>>

\* what does hold: the rule, for event lists whose timestamps carry no offset
C23_CorrelationRuleNaiveTimestamps ==
    (/\ toolIn.fn = "correlate" /\ toolOut.done
     /\ \A k \in 1..Len(toolIn.events) :
            toolIn.events[k].lastTimestamp \in {"naive_recent", "naive_old"}) =>
        LET found == toolOut.value.correlations_found
        IN  IF RecentWarningExists(toolIn) /\ ErrorRateAboveLimit(toolIn)
            THEN /\ Len(found) = 1
                 /\ found[1].type = "event_metric_correlation"
                 /\ found[1].confidence = 90
            ELSE found = <<>>

C23_WitnessRecord ==
    /\ toolIn.fn = "correlate" /\ toolOut.done
    /\ Len(toolIn.events) = 2
    /\ toolIn.events[1] = [lastTimestamp |-> "naive_old", type |-> "Warning"]
    /\ toolIn.events[2] = [lastTimestamp |-> "naive_recent", type |-> "Warning"]
    /\ toolIn.metrics.error_rate = [outcome |-> "value", value |-> 50]
    /\ Len(toolOut.value.correlations_found) = 1
    /\ toolOut.value.correlations_found[1].events_count = 1

\* the failing run: one recent Warning event stamped "...Z" and an error rate of 0.05
C23_Failing ==
    /\ toolIn.fn = "correlate" /\ toolOut.done
    /\ toolIn.events = <<[lastTimestamp |-> "aware_recent", type |-> "Warning"]>>
    /\ toolIn.metrics.error_rate = [outcome |-> "value", value |-> 50]
    /\ toolOut.value.correlations_found = <<>>
    /\ toolOut.value.error # None

(***************************************************************************)
(* C24: whenever the trend predictor returns a prediction, its             *)
(* change_percent equals the absolute percent change of the average of the *)
(* last 3 samples against the average of the remaining samples and is      *)
(* greater than 20, its direction is 'increasing' exactly when that change *)
(* is positive, and its confidence equals min(0.9, change_percent / 50); a *)
(* series whose older average is zero is treated as zero change and yields *)
(* no prediction, and no division by zero occurs for any series.           *)
(***************************************************************************)
FracEq(f, g) == f.num * g.den = g.num * f.den

\* (recent - older) / older * 100 with recent = RecentSum/3, older = OlderSum/m
StatedChange(values) ==
    LET m == Len(values) - 3
    IN  Frac((RecentSum(values) * m - 3 * OlderSum(values)) * 100, 3 * OlderSum(values))

\* the sign-free form of a fraction whose denominator may be negative
FracAbs(f) == Frac(Abs(f.num), Abs(f.den))

FracPositive(f) == (f.num > 0 /\ f.den > 0) \/ (f.num < 0 /\ f.den < 0)

TrendDone == toolIn.fn = "predict_trend" /\ toolOut.done

C24_PredictionContents ==
    TrendDone =>
        LET values == toolIn.values
            out == toolOut.value.direct
        IN  /\ ~out.raised
            /\ (Len(values) > 3 /\ OlderSum(values) = 0) => out.value = NoPrediction
            /\ out.value # NoPrediction =>
                  /\ Len(values) > 3
                  /\ OlderSum(values) # 0
                  /\ LET change == StatedChange(values)
                         percent == FracAbs(change)
                     IN  /\ FracEq(out.value.change_percent, percent)
                         /\ percent.num > 20 * percent.den
                         /\ (out.value.trend = "increasing") = FracPositive(change)
                         /\ out.value.trend \in {"increasing", "decreasing"}
                         /\ IF percent.num * 10 >= 9 * 50 * percent.den
                            THEN FracEq(out.value.confidence, Frac(9, 10))
                            ELSE FracEq(out.value.confidence, Frac(percent.num, 50 * percent.den))

\* a rise of 150 percent: confidence capped at 0.9
C24_Witness ==
    /\ TrendDone
    /\ toolIn.values = <<4, 10, 10, 10>>
    /\ toolOut.value.direct.value # NoPrediction
    /\ toolOut.value.direct.value.trend = "increasing"
    /\ FracEq(toolOut.value.direct.value.change_percent, Frac(150, 1))
    /\ FracEq(toolOut.value.direct.value.confidence, Frac(9, 10))

\* a fall of 25 percent over a two-sample older window: confidence 0.5
C24_WitnessDecreasing ==
    /\ TrendDone
    /\ toolIn.values = <<6, 10, 6, 6, 6>>
    /\ toolOut.value.direct.value # NoPrediction
    /\ toolOut.value.direct.value.trend = "decreasing"
    /\ FracEq(toolOut.value.direct.value.change_percent, Frac(25, 1))
    /\ FracEq(toolOut.value.direct.value.confidence, Frac(1, 2))

\* an older average of zero
C24_WitnessZeroOlder ==
    /\ TrendDone
    /\ toolIn.values = <<0, 10, 10, 10>>
    /\ ~toolOut.value.direct.raised
    /\ toolOut.value.direct.value = NoPrediction

(***************************************************************************)
(* C25: the explanation's aggregate confidence is the mean of the average  *)
(* root-cause confidence and the average contributing-factor confidence    *)
(* when both groups are non-empty, the single group's average when exactly *)
(* one group is non-empty, and 0.5 when neither is present; each           *)
(* root-cause and contributing-factor entry carries the confidence of the  *)
(* insight or correlation record it came from, so the aggregate always     *)
(* lies in [0,1].                                                          *)
(***************************************************************************)
RECURSIVE ConfidenceTotal(_, _)
ConfidenceTotal(entries, n) ==
    IF n = 0 THEN 0 ELSE entries[n].confidence + ConfidenceTotal(entries, n - 1)

\* score = stated aggregate, in hundredths, without dividing
IsStatedAggregate(score, rca, cf) ==
    LET r == ConfidenceTotal(rca, Len(rca))
        c == ConfidenceTotal(cf, Len(cf))
    IN  /\ score.den > 0
        /\ CASE rca # <<>> /\ cf # <<>> ->
                    score.num * 2 * Len(rca) * Len(cf) = (r * Len(cf) + c * Len(rca)) * score.den
             [] rca # <<>> /\ cf = <<>> -> score.num * Len(rca) = r * score.den
             [] rca = <<>> /\ cf # <<>> -> score.num * Len(cf) = c * score.den
             [] OTHER -> score.num = 50 * score.den

InUnitInterval(score) == score.den > 0 /\ score.num >= 0 /\ score.num <= 100 * score.den

StabilityInsights(health) ==
    SelectSeq(health.ai_insights, LAMBDA i : i.type = "stability_concern")

C25_AggregateConfidence ==
    /\ (toolIn.fn = "confidence" /\ toolOut.done) =>
          /\ IsStatedAggregate(toolOut.value, toolIn.root_cause_analysis,
                               toolIn.contributing_factors)
          /\ InUnitInterval(toolOut.value)
    /\ (toolIn.fn = "explain" /\ toolOut.done) =>
          LET e == toolOut.value
              from == StabilityInsights(toolIn.context_health)
              found == toolIn.context_correlation.correlations_found
          IN  /\ Len(e.root_cause_analysis) = Len(from)
              /\ \A k \in 1..Len(from) :
                    e.root_cause_analysis[k].confidence = from[k].confidence
              /\ Len(e.contributing_factors) = Len(found)
              /\ \A k \in 1..Len(found) :
                    e.contributing_factors[k].confidence = found[k].confidence
              /\ IsStatedAggregate(e.confidence_score, e.root_cause_analysis,
                                   e.contributing_factors)
              /\ InUnitInterval(e.confidence_score)

\* one root cause of confidence 0 and two factors of confidence 1: the mean of
\* the group averages is 0.5, not the mean of the three entries
C25_Witness ==
    /\ toolIn.fn = "confidence" /\ toolOut.done
    /\ toolIn.root_cause_analysis = <<[confidence |-> 0]>>
    /\ toolIn.contributing_factors = <<[confidence |-> 100], [confidence |-> 100]>>
    /\ toolOut.value.num = 50 * toolOut.value.den

C25_WitnessNeither ==
    /\ toolIn.fn = "explain" /\ toolOut.done
    /\ toolOut.value.root_cause_analysis = <<>>
    /\ toolOut.value.contributing_factors = <<>>
    /\ toolOut.value.confidence_score = Frac(50, 1)

C25_WitnessBothGroups ==
    /\ toolIn.fn = "explain" /\ toolOut.done
    /\ Len(toolOut.value.root_cause_analysis) = 2
    /\ Len(toolOut.value.contributing_factors) = 1
    /\ toolOut.value.confidence_score.num * 100 = 90 * 100 * toolOut.value.confidence_score.den

(***************************************************************************)
(* C26: with the auto-detect sentinel, explain_failure_with_context        *)
(* derives the failure description from the units of the health snapshot   *)
(* that are not ready or high-risk; when there is none it uses the         *)
(* correlation result's anomalies; when there is none of those either the  *)
(* description is 'No active failures detected'.  Every not-ready unit and *)
(* every high-risk unit appears in the description.                        *)
(***************************************************************************)
\* a unit counts as high-risk above the score that makes analyze_system_health
\* predict its failure
HighRiskLimit == 70

NotReadyUnits(health) == {n \in DOMAIN health.pods : ~health.pods[n].ready}

HighRiskUnits(health) == {n \in DOMAIN health.pods : health.pods[n].ai_risk_score > HighRiskLimit}

RestartedUnits(health) == {n \in DOMAIN health.pods : health.pods[n].restarts > 0}

AutoDetected == toolIn.fn = "explain" /\ toolOut.done /\ toolIn.failure_description = "auto-detect"

DescribedUnits(description) ==
    IF description.source = "units" THEN {x.pod : x \in description.entries} ELSE {}

\* the description follows the units in `flagged`, then the anomalies, then nothing
DescriptionFollows(description, flagged, anomalies) ==
    IF flagged # {}
    THEN description.source = "units" /\ DescribedUnits(description) = flagged
    ELSE IF anomalies # <<>>
         THEN description.source = "anomalies"
         ELSE description.source = "none" /\ description.entries = {}

\* the statement as given: not ready or high-risk
C26_DescriptionFromNotReadyOrHighRisk ==
    AutoDetected =>
        DescriptionFollows(toolOut.value.failure_context.description,
                           NotReadyUnits(toolIn.detect_health)
                               \cup HighRiskUnits(toolIn.detect_health),
                           toolIn.fallback_correlation.anomalies)

\* the statement that holds: not ready or restarted at least once
C26_DescriptionFromNotReadyOrRestarted ==
    AutoDetected =>
        /\ DescriptionFollows(toolOut.value.failure_context.description,
                              NotReadyUnits(toolIn.detect_health)
                                  \cup RestartedUnits(toolIn.detect_health),
                              toolIn.fallback_correlation.anomalies)
        /\ NotReadyUnits(toolIn.detect_health)
               \subseteq DescribedUnits(toolOut.value.failure_context.description)

\* a restarted ready unit, a healthy unit and a unit in a crash loop: two are named
C26_Witness ==
    /\ AutoDetected
    /\ Cardinality(DOMAIN toolIn.detect_health.pods) = 3
    /\ Cardinality(NotReadyUnits(toolIn.detect_health)) = 1
    /\ Cardinality(RestartedUnits(toolIn.detect_health)) = 2
    /\ Cardinality(DescribedUnits(toolOut.value.failure_context.description)) = 2

C26_WitnessNoFailures ==
    /\ AutoDetected
    /\ DOMAIN toolIn.detect_health.pods # {}
    /\ toolOut.value.failure_context.description.source = "none"

\* the run that separates the two statements: one ready unit, restarted once, risk 20
C26_WitnessRestartedOnly ==
    /\ AutoDetected
    /\ Cardinality(DOMAIN toolIn.detect_health.pods) = 1
    /\ NotReadyUnits(toolIn.detect_health) = {}
    /\ HighRiskUnits(toolIn.detect_health) = {}
    /\ toolOut.value.failure_context.description.source = "units"

(***************************************************************************)
(* C27: on the no-cluster, non-simulated path the returned health score    *)
(* equals min(100, 20 * up_count), where up_count is the number of         *)
(* service-up series returned by the metrics backend, the insights it adds *)
(* are low-confidence, and the snapshot's unit mapping is empty.           *)
(***************************************************************************)
ExternalReturned == hpc = "returned" /\ HealthPath(config) = "external"

\* the backend is asked only through a real endpoint
BackendQueried == PROM_URL \notin {None, "", MockPromURL}

\* the series the "up" query returned; none when no query was made
ReturnedUpCount == IF BackendQueried THEN healthIn.up_count ELSE 0

BackendReturnedData == BackendQueried /\ (healthIn.up_count > 0 \/ healthIn.other_metrics)

\* below the 0.9 given to the insights drawn from a unit listing
LowConfidence(insight) == insight.confidence < 90

C27_ExternalScoreFromUpCount ==
    ExternalReturned =>
        /\ health_analysis.health_score = Frac(Min(100, 20 * ReturnedUpCount), 1)
        /\ \A k \in DOMAIN health_analysis.ai_insights :
              LowConfidence(health_analysis.ai_insights[k])
        /\ DOMAIN health_analysis.pods = {}

\* the statement that holds: the formula when the backend returned data, the
\* fixed estimate of 75 when it returned none
C27_ExternalScoreOrFixedEstimate ==
    ExternalReturned =>
        /\ IF BackendReturnedData
           THEN /\ health_analysis.health_score = Frac(Min(100, 20 * healthIn.up_count), 1)
                /\ Len(health_analysis.ai_insights) = 1
                /\ health_analysis.ai_insights[1].type = "external_monitoring"
                /\ health_analysis.ai_insights[1].confidence = 80
           ELSE /\ health_analysis.health_score = Frac(75, 1)
                /\ Len(health_analysis.ai_insights) = 1
                /\ health_analysis.ai_insights[1].type = "limited_visibility"
                /\ health_analysis.ai_insights[1].confidence = 60
        /\ DOMAIN health_analysis.pods = {}
        /\ health_analysis.error = None

\* three series up: 60
C27_Witness ==
    /\ ExternalReturned /\ BackendQueried
    /\ healthIn.up_count = 3
    /\ health_analysis.health_score = Frac(60, 1)

\* the "up" query empty, another query answered: 0
C27_WitnessNothingUp ==
    /\ ExternalReturned /\ BackendQueried
    /\ healthIn.up_count = 0 /\ healthIn.other_metrics
    /\ health_analysis.health_score = Frac(0, 1)

\* the run that separates the two statements: the backend answers no query
C27_WitnessFixedEstimate ==
    /\ ExternalReturned /\ BackendQueried
    /\ healthIn.up_count = 0 /\ ~healthIn.other_metrics
    /\ health_analysis.health_score = Frac(75, 1)

(***************************************************************************)
(* C28: for a series of exactly 3 samples the trend predictor never        *)
(* returns a prediction, whatever the values: the older window is empty,   *)
(* the recent average is used as the older average, and the change is      *)
(* therefore 0; a prediction is only possible from 4 samples on.           *)
(***************************************************************************)
C28_ThreeSamplesNeverPredict ==
    TrendDone =>
        /\ Len(toolIn.values) = 3 =>
              /\ BeforeLastThree(toolIn.values) = <<>>
              /\ ~toolOut.value.direct.raised
              /\ ~TrendChange(toolIn.values).raised
              /\ TrendChange(toolIn.values).value.num = 0
              /\ toolOut.value.direct.value = NoPrediction
              /\ toolOut.value.caller = [error |-> None, predictions |-> <<>>]
        /\ toolOut.value.direct.value # NoPrediction => Len(toolIn.values) >= 4

\* three samples that rise from 0 to 10
C28_Witness ==
    /\ TrendDone
    /\ toolIn.values = <<0, 5, 10>>
    /\ toolOut.value.direct.value = NoPrediction

\* the same rise after one more sample is predicted
C28_WitnessFourSamples ==
    /\ TrendDone
    /\ toolIn.values = <<4, 0, 5, 10>>
    /\ toolOut.value.direct.value # NoPrediction

(***************************************************************************)
(* C29: on the cluster path, when the unit listing succeeds and returns    *)
(* zero units in the scope, the snapshot keeps health score 100 with no    *)
(* units, no insights and no recommendations, and the driver in blocking   *)
(* mode ends with exit code 0.                                             *)
(***************************************************************************)
EmptyListing(prom_url, error_rate) ==
    ClusterHealthAnalysis(NewAnalysis, prom_url,
        [pods_cmd |-> "ok", items |-> <<>>, error_rate |-> error_rate,
         up_count |-> 0, other_metrics |-> FALSE])

EmptyListingSnapshots ==
    {EmptyListing(url, rate) : url \in {None, "http://custom:9090"},
                               rate \in {"none", "low", "high", "raise"}}

KeepsPerfectScore(s) ==
    /\ s.health_score = Frac(100, 1)
    /\ DOMAIN s.pods = {}
    /\ s.ai_insights = <<>>
    /\ s.recommendations = <<>>
    /\ s.error = None

C29_EmptyScopePasses ==
    /\ \A s \in EmptyListingSnapshots : KeepsPerfectScore(s)
    /\ \A r \in DOMAIN run :
          (/\ run[r].pc = "exited"
           /\ driverIn.path = "cluster"
           /\ driverIn.second \in EmptyListingSnapshots
           /\ run[r].blocking_mode
           /\ ~run[r].raised)
          => /\ KeepsPerfectScore(run[r].health_analysis)
             /\ run[r].critical_issues = 0
             /\ run[r].exit_code = 0
             /\ run[r].status = 0

\* blocking mode, the narrative returned, an empty scope at the second call
\* and a crash loop at the first
C29_Witness ==
    \E r \in DOMAIN run :
        /\ run[r].pc = "exited"
        /\ driverIn.path = "cluster"
        /\ driverIn.second \in EmptyListingSnapshots
        /\ DOMAIN driverIn.first.pods # {}
        /\ run[r].blocking_mode
        /\ run[r].result # None
        /\ run[r].status = 0

(***************************************************************************)
(* C30: the driver runs the health analysis twice in sequence: the         *)
(* snapshot of the first call is used only to build the narrative query    *)
(* text, and the health score and critical-unit count that decide the exit *)
(* code come only from the snapshot of the second call, so a change of     *)
(* unit state between the two calls changes the exit code but not the      *)
(* query.                                                                  *)
(***************************************************************************)
\* the query a snapshot leads to: the critical one when a unit is not ready
QueryFrom(snapshot) ==
    IF NotReadyUnits(snapshot) # {} THEN "critical_issues" ELSE "healthy"

\* the exit code a snapshot leads to once the narrative has returned
ExitCodeFrom(snapshot, blocking_mode) ==
    IF /\ blocking_mode
       /\ \/ NotReadyUnits(snapshot) # {}
          \/ \E n \in DOMAIN snapshot.pods : snapshot.pods[n].ai_risk_score > CriticalRisk
          \/ FracLess(snapshot.health_score, HealthThreshold)
    THEN 1 ELSE 0

C30_QueryFromFirstExitFromSecond ==
    \A r \in DOMAIN run :
        /\ run[r].pc # "start" =>
              /\ run[r].analysis_calls = 2
              /\ run[r].query = QueryFrom(driverIn.first)
              /\ run[r].health_analysis = driverIn.second
        /\ (run[r].pc = "exited" /\ run[r].result # None) =>
              /\ run[r].exit_code = ExitCodeFrom(driverIn.second, run[r].blocking_mode)
              /\ run[r].status = run[r].exit_code

\* healthy at the first call, a crash loop at the second: the query of a
\* healthy system and exit code 1
C30_Witness ==
    \E r \in DOMAIN run :
        /\ run[r].pc = "exited" /\ run[r].result # None
        /\ driverIn.path = "cluster"
        /\ DOMAIN driverIn.first.pods # {}
        /\ NotReadyUnits(driverIn.first) = {}
        /\ ExitCodeFrom(driverIn.first, run[r].blocking_mode) = 0
        /\ NotReadyUnits(driverIn.second) # {}
        /\ run[r].blocking_mode
        /\ run[r].query = "healthy"
        /\ run[r].exit_code = 1

\* a crash loop at the first call, healthy at the second: the critical query
\* and exit code 0
C30_WitnessRecovered ==
    \E r \in DOMAIN run :
        /\ run[r].pc = "exited" /\ run[r].result # None
        /\ NotReadyUnits(driverIn.first) # {}
        /\ DOMAIN driverIn.second.pods # {}
        /\ NotReadyUnits(driverIn.second) = {}
        /\ run[r].blocking_mode
        /\ run[r].query = "critical_issues"
        /\ run[r].exit_code = 0

====
